---------------------------- MODULE Spec2Model ----------------------------
(***************************************************************************)
(* A model of the session layer of adk-spatial-os (and of the identical    *)
(* session manager of adk-3d-ui): the per-session context, the approval    *)
(* gate of the master-prompt and inbound-event handlers, and the broadcast *)
(* channel that carries the session's event stream.                        *)
(*                                                                         *)
(* Three specifications share the variables:                               *)
(*   Spec             the HTTP handlers of server.rs, interleaved at the   *)
(*                    points where they read or update the session         *)
(*                    context; `stream` is the log of messages handed to   *)
(*                    the channel, in order;                               *)
(*   SpecStream       concurrent publish calls and stream clients that     *)
(*                    connect, receive, disconnect and reconnect;          *)
(*   SpecBackpressure one producer and one slow consumer on the channel    *)
(*                    of CHANNEL_CAPACITY slots.                           *)
(*                                                                         *)
(* The other crates have a variable and a specification each:              *)
(*   SpecMistral      one generate_content call of adk-mistralrs;          *)
(*   SpecMcp          the tools an MCP toolset lists, with their schemas;  *)
(*   SpecGuard        one validate call of the schema guardrail;           *)
(*   SpecRag          a caller building and running a RAG pipeline;        *)
(*   SpecStore        the in-memory vector store of adk-rag;               *)
(*   SpecJwks         the JWKS cache of adk-auth, one caller;              *)
(*   SpecSso          the JWKS cache with concurrent callers;              *)
(*   SpecRoute        one route_prompt call of the spatial-os host;        *)
(*   SpecPending      the handlers of Spec on a session whose approval     *)
(*                    is already pending;                                  *)
(*   SpecStudio       stream requests on one session of the adk-studio     *)
(*                    run server;                                          *)
(*   SpecPoll         one poll_task call of an MCP tool, with fairness.    *)
(***************************************************************************)
EXTENDS Integers, Sequences, FiniteSets, TLC

VARIABLES
    server_seq,   \* SessionState.server_seq (AtomicU64)
    context,      \* SessionState.context (ShellSessionContext)
    stream,       \* every message handed to tx.send, in the order of the sends
    req,          \* the HTTP requests: kind, position, arguments, local snapshot
    chan,         \* the messages the broadcast channel accepted, in slot order
    rx,           \* per client: its broadcast::Receiver (cursor) and what it got
    pub,          \* per publishing task: its position inside publish()
    turn,         \* adk-mistralrs: one generate_content call
    mcp,          \* adk-tool: one tool of the MCP server on its way through tools()
    guard,        \* adk-guardrail: one SchemaValidator::validate call
    rag,          \* adk-rag: a caller configuring, building and running a pipeline
    store,        \* adk-rag: an InMemoryVectorStore and the last search on it
    jwks,         \* adk-auth: a JwksCache, its endpoint, the clock and the last get_key
    route,        \* adk-spatial-os: one route_prompt call of the host
    sso,          \* adk-auth: a JwksCache shared by concurrent get_key and refresh calls
    studio,       \* adk-studio: one session process of the run server and its stream requests
    poll          \* adk-tool: one poll_task call of an MCP tool in task mode

\* The session layer of adk-spatial-os.
sessionVars == <<server_seq, context, stream, req, chan, rx, pub>>

\* The other crates, one variable each.
crateVars == <<turn, mcp, guard, rag, store, jwks, route, sso, studio, poll>>

\* What the actions of one crate leave alone.
exceptTurn == <<sessionVars, mcp, guard, rag, store, jwks, route, sso, studio, poll>>
exceptMcp == <<sessionVars, turn, guard, rag, store, jwks, route, sso, studio, poll>>
exceptGuard == <<sessionVars, turn, mcp, rag, store, jwks, route, sso, studio, poll>>
exceptRag == <<sessionVars, turn, mcp, guard, store, jwks, route, sso, studio, poll>>
exceptStore == <<sessionVars, turn, mcp, guard, rag, jwks, route, sso, studio, poll>>
exceptJwks == <<sessionVars, turn, mcp, guard, rag, store, route, sso, studio, poll>>
exceptRoute == <<sessionVars, turn, mcp, guard, rag, store, jwks, sso, studio, poll>>
exceptSso == <<sessionVars, turn, mcp, guard, rag, store, jwks, route, studio, poll>>
exceptStudio == <<sessionVars, turn, mcp, guard, rag, store, jwks, route, sso, poll>>
exceptPoll == <<sessionVars, turn, mcp, guard, rag, store, jwks, route, sso, studio>>

vars == <<sessionVars, crateVars>>

\* Option<String>::None
None == "none"

\* Option<T> of a struct: the empty sequence is None, <<x>> is Some(x).
Nothing == <<>>

Some(x) == <<x>>

\* ------------------------------------------------------------------ bounds

MaxRequests == 2

\* ------------------------------------------------------- safety/risk.rs

RiskTier == {"Safe", "Controlled", "Dangerous"}

risk_rank(risk) ==
    CASE risk = "Safe" -> 0
      [] risk = "Controlled" -> 1
      [] risk = "Dangerous" -> 2

max_risk(left, right) ==
    IF risk_rank(left) >= risk_rank(right) THEN left ELSE right

dangerous_terms ==
    { <<"rollback">>, <<"restart">>, <<"shutdown">>, <<"terminate">>,
      <<"delete">>, <<"drop">>, <<"wipe">>, <<"scale", "down">>, <<"revoke">> }

controlled_terms ==
    { <<"create">>, <<"update">>, <<"send">>, <<"approve">>, <<"schedule">>,
      <<"handoff">>, <<"trigger">> }

\* A prompt is a sequence of lower-case words; a term is contained when its
\* words occur contiguously.
Contains(prompt, term) ==
    \E i \in 1..Len(prompt) :
        /\ i + Len(term) - 1 <= Len(prompt)
        /\ SubSeq(prompt, i, i + Len(term) - 1) = term

classify_prompt_risk(prompt) ==
    IF \E term \in dangerous_terms : Contains(prompt, term) THEN "Dangerous"
    ELSE IF \E term \in controlled_terms : Contains(prompt, term) THEN "Controlled"
    ELSE "Safe"

\* ------------------------------------------- app_runtime/manifest.rs, host.rs

\* default_manifests(): the registered apps, in registration order.
AppIds == <<"ops-center", "mail-agent", "calendar-agent">>

Registered == { AppIds[i] : i \in 1..Len(AppIds) }

default_risk(app_id) ==
    CASE app_id = "ops-center" -> "Controlled"
      [] app_id = "mail-agent" -> "Controlled"
      [] app_id = "calendar-agent" -> "Safe"

route_max_apps == 2

InSeq(x, s) == \E i \in 1..Len(s) : s[i] = x

RECURSIVE normalize_loop(_, _, _)
normalize_loop(candidate_ids, selected, max_apps) ==
    IF candidate_ids = <<>> \/ Len(selected) >= max_apps THEN selected
    ELSE LET app_id == Head(candidate_ids) IN
         IF app_id \notin Registered \/ InSeq(app_id, selected)
         THEN normalize_loop(Tail(candidate_ids), selected, max_apps)
         ELSE normalize_loop(Tail(candidate_ids), Append(selected, app_id), max_apps)

normalize_route_selection(candidate_ids, max_apps) ==
    LET selected == normalize_loop(candidate_ids, <<>>, max_apps) IN
    IF selected = <<>> /\ AppIds # <<>> THEN <<AppIds[1]>> ELSE selected

max_risk_for_selected(selected_apps) ==
    LET ranks == { risk_rank(default_risk(selected_apps[i])) : i \in 1..Len(selected_apps) } IN
    IF ranks = {} THEN "Safe"
    ELSE CHOOSE r \in RiskTier : risk_rank(r) = CHOOSE m \in ranks : \A n \in ranks : n <= m

\* route_prompt without the classify_prompt_risk of lines 230 and 275.
route_prompt_TrustsRouter(prompt, candidate_ids, stated_risk) ==
    LET selected_apps == normalize_route_selection(candidate_ids, route_max_apps)
        selected_risk == IF stated_risk \in RiskTier THEN stated_risk
                         ELSE max_risk_for_selected(selected_apps)
    IN [selected_apps |-> selected_apps, risk |-> selected_risk]

\* The route of a prompt: the candidate ids (the router model's answer, or the
\* manifest scores) normalised, and the risk the router stated (None when it
\* stated none, or when the manifest route is taken) raised to the prompt's
\* keyword risk.
route_prompt(prompt, candidate_ids, stated_risk) ==
    LET selected_apps == normalize_route_selection(candidate_ids, route_max_apps)
        selected_risk == IF stated_risk \in RiskTier THEN stated_risk
                         ELSE max_risk_for_selected(selected_apps)
    IN [selected_apps |-> selected_apps,
        risk |-> max_risk(selected_risk, classify_prompt_risk(prompt))]

\* ------------------------------------------------------------ the inputs

Prompts ==
    { <<>>, <<"show", "status">>, <<"schedule", "meeting">>,
      <<"rollback", "checkout", "now">> }

\* What the router answers (or the manifest scores give): nothing, or a list
\* with an unregistered id, a repeated id and more ids than route_max_apps.
CandidateLists ==
    { <<>>, <<"unknown-app", "calendar-agent", "calendar-agent", "mail-agent", "ops-center">> }

StatedRisks == {None, "Safe", "Dangerous"}


FocusIds == {"unknown-app"}

\* An app command is a sequence of tokens; "|" is the separator of a handoff.
Commands ==
    { <<"handoff", "mail-agent", "|", "incident">>,
      <<"Handoff", "ghost-app", "|", "incident">>,
      <<"handoff", "|", "incident">> }

CommandApps == {"ops-center", "unknown-app"}

\* An id the server never issued (a request's number is the id it issues).
UnknownActionId == MaxRequests + 1

\* manifest.rs default_manifests: the apps each app may hand off to.
handoff_allowlist(app_id) ==
    IF app_id = "ops-center" THEN {"mail-agent", "calendar-agent"} ELSE {"ops-center"}

\* host.rs evaluate_handoff_policy: source and target registered, and the
\* target the source itself or on the source's allowlist.
evaluate_handoff_policy(from_app, to_app) ==
    IF from_app \notin Registered THEN FALSE
    ELSE IF to_app \notin Registered THEN FALSE
    ELSE IF from_app = to_app THEN TRUE
    ELSE to_app \in handoff_allowlist(from_app)

\* --------------------------------------------------- app_runtime/handoff.rs

to_lowercase(word) == IF word = "Handoff" THEN "handoff" ELSE word

RECURSIVE IndexOf(_, _, _)
IndexOf(s, x, i) ==
    IF i > Len(s) THEN 0 ELSE IF s[i] = x THEN i ELSE IndexOf(s, x, i + 1)

parse_handoff_command(from_app, command) ==
    IF command = <<>> \/ to_lowercase(Head(command)) # "handoff" THEN Nothing
    ELSE LET rest == Tail(command)
             bar == IndexOf(rest, "|", 1)
         IN IF bar = 0 THEN Nothing
            ELSE LET to_app == SubSeq(rest, 1, bar - 1)
                     context_summary == SubSeq(rest, bar + 1, Len(rest))
                 IN IF to_app = <<>> \/ context_summary = <<>> THEN Nothing
                    ELSE Some([from_app |-> from_app, to_app |-> to_app[1]])

evaluate_handoff(request, user_allowed) ==
    IF ~user_allowed THEN [allowed |-> FALSE, reason |-> "user rejected handoff request"]
    ELSE IF request.from_app = request.to_app
         THEN [allowed |-> TRUE, reason |-> "intra-app handoff allowed"]
         ELSE [allowed |-> TRUE, reason |-> "user-governed cross-app handoff"]

\* ------------------------------------------------------- safety/audit.rs

AuditDecision == {"Proposed", "Approved", "Rejected", "Executed"}

AuditEntry(action_id, app_id, risk, decision) ==
    [action_id |-> action_id, app_id |-> app_id, risk |-> risk, decision |-> decision]

\* ------------------------------------------------------------- protocol.rs

ShellState(active_apps, focused_app) ==
    [kind |-> "shell_state", active_apps |-> active_apps, focused_app |-> focused_app]

AppSurfaceOps(active_apps) ==
    [kind |-> "app_surface_ops", apps |-> active_apps]

TimelineEntry(what, action_id, flag) ==
    [kind |-> "timeline_entry", what |-> what, action_id |-> action_id, flag |-> flag]

ApprovalRequired(action_id, app_id, risk) ==
    [kind |-> "approval_required", action_id |-> action_id, app_id |-> app_id, risk |-> risk]

Notification(level, message) ==
    [kind |-> "notification", level |-> level, message |-> message]

ErrorPayload(code) == [kind |-> "error", code |-> code]

Done(status) == [kind |-> "done", status |-> status]

Ping == [kind |-> "ping"]

\* --------------------------------------------------------------- session.rs

CHANNEL_CAPACITY == 256

DefaultContext ==
    [focused_app |-> None, active_apps |-> <<>>, pending_approval |-> Nothing,
     pending_handoff |-> Nothing, audit_log |-> <<>>]

\* SseEnvelope::new(seq, ..., payload)
SseEnvelope(seq, payload) == [seq |-> seq, payload |-> payload]

\* publish, called for each of `payloads` in turn with no other task between:
\* fetch_add on server_seq, then tx.send.
PublishAll(payloads) ==
    /\ server_seq' = server_seq + Len(payloads)
    /\ stream' = stream \o [i \in 1..Len(payloads) |-> SseEnvelope(server_seq + i, payloads[i])]

\* What a handler keeps of the context it read (get_context clones it all;
\* the handlers use these fields of the clone).
Snapshot(ctx) ==
    [focused_app |-> ctx.focused_app, active_apps |-> ctx.active_apps,
     pending_approval |-> ctx.pending_approval, pending_handoff |-> ctx.pending_handoff]

\* The action ids a client may send in a decision: those the server has
\* issued so far (each is audited as Proposed when issued), and one it never
\* issued.
ActionIds ==
    {UnknownActionId} \cup
    { context.audit_log[i].action_id : i \in 1..Len(context.audit_log) }

Idle == [kind |-> None, pc |-> "idle", arg |-> Nothing, snap |-> Nothing]

Requests == 1..MaxRequests

\* Requests are numbered in the order they arrive.
Arrives(r) ==
    /\ req[r].pc = "idle"
    /\ IF r = 1 THEN TRUE ELSE req[r - 1].pc # "idle"

\* The response is sent and the handler's locals are dropped.
Responded == [kind |-> None, pc |-> "done", arg |-> Nothing, snap |-> Nothing]

Finish(r) == req' = [req EXCEPT ![r] = Responded]

\* ---------------------------------------------------- server.rs: master_prompt

\* POST /api/os/prompt, and the MasterPromptSubmit inbound event: an empty
\* prompt is refused; otherwise the plan is built (host.route_prompt).
MasterPromptStart(r, prompt, candidate_ids, stated_risk) ==
    /\ Arrives(r)
    /\ req' = [req EXCEPT ![r] =
                 IF prompt = <<>>
                 THEN Responded
                 ELSE [kind |-> "master_prompt", pc |-> "update",
                       arg |-> [accepted |-> TRUE,
                                plan |-> route_prompt(prompt, candidate_ids, stated_risk)],
                       snap |-> Nothing]]
    /\ UNCHANGED <<server_seq, context, stream, chan, rx, pub, crateVars>>

FirstOf(apps) == IF apps = <<>> THEN None ELSE apps[1]

\* update_context (lines 257-266), then ShellState, TimelineEntry, AppSurfaceOps.
MasterPromptUpdate(r) ==
    /\ req[r].kind = "master_prompt" /\ req[r].pc = "update"
    /\ LET plan == req[r].arg.plan
           focused_app == FirstOf(plan.selected_apps)
       IN /\ context' = [context EXCEPT !.active_apps = plan.selected_apps,
                                        !.focused_app = focused_app,
                                        !.pending_approval = Nothing,
                                        !.pending_handoff = Nothing]
          /\ PublishAll(<<ShellState(plan.selected_apps, focused_app),
                          TimelineEntry("route", Nothing, TRUE),
                          AppSurfaceOps(plan.selected_apps)>>)
    /\ req' = [req EXCEPT ![r].pc = "gate"]
    /\ UNCHANGED <<chan, rx, pub, crateVars>>

\* The approval an action of this risk needs before it goes on: a Dangerous
\* plan is held for approval (line 303).
NeedsApproval(risk) == risk = "Dangerous"

\* Lines 303-349: a Dangerous plan records the pending approval and its
\* Proposed audit entry and publishes ApprovalRequired; any other plan
\* publishes Done.
MasterPromptGate(r) ==
    /\ req[r].kind = "master_prompt" /\ req[r].pc = "gate"
    /\ LET plan == req[r].arg.plan
           focused_app == FirstOf(plan.selected_apps)
           app_id == IF focused_app = None THEN "ops-center" ELSE focused_app
           pending == [action_id |-> r, app_id |-> app_id, risk |-> plan.risk]
       IN IF NeedsApproval(plan.risk)
          THEN /\ context' = [context EXCEPT
                                !.pending_approval = Some(pending),
                                !.audit_log = Append(@, AuditEntry(pending.action_id,
                                                 pending.app_id, pending.risk, "Proposed"))]
               /\ PublishAll(<<ApprovalRequired(pending.action_id, pending.app_id, pending.risk)>>)
          ELSE /\ context' = context
               /\ PublishAll(<<Done("completed")>>)
    /\ Finish(r)
    /\ UNCHANGED <<chan, rx, pub, crateVars>>

\* ---------------------------------------------------- server.rs: inbound_event

\* AppFocus: get_context (line 376).
AppFocusStart(r, app_id) ==
    /\ Arrives(r)
    /\ req' = [req EXCEPT ![r] = [kind |-> "app_focus", pc |-> "update",
                                  arg |-> [app_id |-> app_id], snap |-> Some(Snapshot(context))]]
    /\ UNCHANGED <<server_seq, context, stream, chan, rx, pub, crateVars>>

\* AppFocus: update_context (lines 378-383), then ShellState and TimelineEntry.
AppFocusUpdate(r) ==
    /\ req[r].kind = "app_focus" /\ req[r].pc = "update"
    /\ context' = [context EXCEPT !.focused_app = req[r].arg.app_id]
    /\ PublishAll(<<ShellState(req[r].snap[1].active_apps, req[r].arg.app_id),
                    TimelineEntry("focus", Nothing, TRUE)>>)
    /\ Finish(r)
    /\ UNCHANGED <<chan, rx, pub, crateVars>>

\* AppCommand with a handoff command (lines 406-466): the handoff and its
\* approval become pending, Proposed is audited, ApprovalRequired is published.
AppCommandHandoff(r, app_id, command) ==
    /\ Arrives(r)
    /\ parse_handoff_command(app_id, command) # Nothing
    /\ LET handoff == parse_handoff_command(app_id, command)[1]
           handoff_id == r
       IN /\ context' = [context EXCEPT
                           !.pending_handoff = Some([handoff_id |-> handoff_id, request |-> handoff]),
                           !.pending_approval = Some([action_id |-> handoff_id,
                                                      app_id |-> handoff.from_app,
                                                      risk |-> "Controlled"]),
                           !.audit_log = Append(@, AuditEntry(handoff_id, handoff.from_app,
                                                              "Controlled", "Proposed"))]
          /\ PublishAll(<<TimelineEntry("handoff_requested", Some(handoff_id), TRUE),
                          ApprovalRequired(handoff_id, handoff.from_app, "Controlled")>>)
          /\ Finish(r)
    /\ UNCHANGED <<chan, rx, pub, crateVars>>

\* execute_command that runs the agent whatever the app id.
execute_command_AcceptsUnknown(app_id, agent_accepts) ==
    [accepted |-> agent_accepts,
     summary |-> IF agent_accepts THEN "agent output" ELSE "Execution failed"]

\* host.execute_command: an unknown app is refused; otherwise the app's agent
\* accepts the command or fails (run_app_agent returns accepted: false and
\* "Execution failed: ..." for each of its errors).
execute_command(app_id, agent_accepts) ==
    IF app_id \notin Registered THEN [accepted |-> FALSE, summary |-> "Unknown app"]
    ELSE [accepted |-> agent_accepts,
          summary |-> IF agent_accepts THEN "agent output" ELSE "Execution failed"]

\* AppCommand with any other command (lines 468-490).
AppCommandExecute(r, app_id, command, agent_accepts) ==
    /\ Arrives(r)
    /\ parse_handoff_command(app_id, command) = Nothing
    /\ LET dispatched == execute_command(app_id, agent_accepts)
       IN /\ PublishAll(<<TimelineEntry("app_command", Nothing, dispatched.accepted),
                          Notification(IF dispatched.accepted THEN "info" ELSE "warn",
                                       dispatched.summary)>>)
          /\ Finish(r)
    /\ UNCHANGED <<context, chan, rx, pub, crateVars>>

\* ApprovalDecision: get_context (line 496).
ApprovalDecisionStart(r, action_id, approved) ==
    /\ Arrives(r)
    /\ req' = [req EXCEPT ![r] = [kind |-> "approval_decision", pc |-> "apply",
                                  arg |-> [action_id |-> action_id, approved |-> approved],
                                  snap |-> Some(Snapshot(context))]]
    /\ UNCHANGED <<server_seq, context, stream, chan, rx, pub, crateVars>>

\* DecisionBranch without the comparison of line 610: any decision resolves
\* whatever approval is pending.
DecisionBranch_NoIdCheck(snap, action_id) ==
    IF snap.pending_handoff # Nothing /\ snap.pending_handoff[1].handoff_id = action_id
    THEN "handoff"
    ELSE IF snap.pending_approval = Nothing THEN "no_pending"
    ELSE "resolve"

\* The branch of the ApprovalDecision arm the snapshot selects (lines 497-498,
\* 591, 610).
DecisionBranch(snap, action_id) ==
    IF snap.pending_handoff # Nothing /\ snap.pending_handoff[1].handoff_id = action_id
    THEN "handoff"
    ELSE IF snap.pending_approval = Nothing THEN "no_pending"
    ELSE IF snap.pending_approval[1].action_id # action_id THEN "mismatch"
    ELSE "resolve"

\* ResolveApproval without line 632: the decided approval stays pending.
ResolveApproval_KeepsPending(ctx, action_id, pending, approved) ==
    [ctx EXCEPT !.audit_log = Append(@, AuditEntry(action_id, pending.app_id, pending.risk,
                                        IF approved THEN "Approved" ELSE "Rejected")),
                !.pending_handoff = Nothing]

\* Lines 627-635: the decision is audited and the pending approval and
\* handoff are cleared.
ResolveApproval(ctx, action_id, pending, approved) ==
    [ctx EXCEPT !.audit_log = Append(@, AuditEntry(action_id, pending.app_id, pending.risk,
                                        IF approved THEN "Approved" ELSE "Rejected")),
                !.pending_approval = Nothing,
                !.pending_handoff = Nothing]

\* Lines 636-665: what a resolved approval publishes.
ResolvedEvents(action_id, approved) ==
    << TimelineEntry("approval", Some(action_id), approved),
       Notification(IF approved THEN "success" ELSE "info",
                    IF approved THEN "Approval accepted. Execution can proceed."
                    ELSE "Approval rejected. Action blocked."),
       Done("approval_resolved") >>

\* ResolveHandoff without line 506: the focus stays where the handler found it.
ResolveHandoff_KeepsFocus(ctx, snap, pending_handoff, allowed) ==
    LET to_app == pending_handoff.request.to_app
        next_active == IF allowed /\ ~InSeq(to_app, snap.active_apps)
                       THEN Append(snap.active_apps, to_app) ELSE snap.active_apps
    IN [ctx EXCEPT !.pending_handoff = Nothing,
                   !.pending_approval = Nothing,
                   !.active_apps = next_active,
                   !.focused_app = snap.focused_app,
                   !.audit_log = Append(@, AuditEntry(pending_handoff.handoff_id,
                                            pending_handoff.request.from_app, "Controlled",
                                            IF allowed THEN "Approved" ELSE "Rejected"))]

\* Lines 500-526: the decided handoff is audited, the pending handoff and
\* approval are cleared, and an allowed handoff activates and focuses its target.
ResolveHandoff(ctx, snap, pending_handoff, allowed) ==
    LET to_app == pending_handoff.request.to_app
        next_active == IF allowed /\ ~InSeq(to_app, snap.active_apps)
                       THEN Append(snap.active_apps, to_app) ELSE snap.active_apps
        next_focus == IF allowed THEN to_app ELSE snap.focused_app
    IN [ctx EXCEPT !.pending_handoff = Nothing,
                   !.pending_approval = Nothing,
                   !.active_apps = next_active,
                   !.focused_app = next_focus,
                   !.audit_log = Append(@, AuditEntry(pending_handoff.handoff_id,
                                            pending_handoff.request.from_app, "Controlled",
                                            IF allowed THEN "Approved" ELSE "Rejected"))]

\* ApprovalDecision, the rest of the arm for the branch taken. An allowed
\* handoff reads the context again (line 541) before it publishes the rest.
ApprovalDecisionApply(r) ==
    /\ req[r].kind = "approval_decision" /\ req[r].pc = "apply"
    /\ LET snap == req[r].snap[1]
           action_id == req[r].arg.action_id
           approved == req[r].arg.approved
           branch == DecisionBranch(snap, action_id)
       IN CASE branch = "handoff" ->
                 LET decision == evaluate_handoff(snap.pending_handoff[1].request, approved) IN
                 /\ context' = ResolveHandoff(context, snap, snap.pending_handoff[1], decision.allowed)
                 /\ IF decision.allowed
                    THEN /\ PublishAll(<<TimelineEntry("handoff_decision", Some(action_id), TRUE)>>)
                         /\ req' = [req EXCEPT ![r].pc = "refresh"]
                    ELSE /\ PublishAll(<<TimelineEntry("handoff_decision", Some(action_id), FALSE),
                                         Notification("info", decision.reason),
                                         Done("handoff_resolved")>>)
                         /\ Finish(r)
            [] branch = "no_pending" ->
                 /\ context' = context
                 /\ PublishAll(<<Notification("warn", "No pending approval found")>>)
                 /\ Finish(r)
            [] branch = "mismatch" ->
                 /\ context' = context
                 /\ PublishAll(<<ErrorPayload("approval_mismatch")>>)
                 /\ Finish(r)
            [] branch = "resolve" ->
                 /\ context' = ResolveApproval(context, action_id, snap.pending_approval[1], approved)
                 /\ PublishAll(ResolvedEvents(action_id, approved))
                 /\ Finish(r)
    /\ UNCHANGED <<chan, rx, pub, crateVars>>

\* An allowed handoff: get_context (line 541), then ShellState, AppSurfaceOps,
\* Notification, Done.
ApprovalDecisionRefresh(r) ==
    /\ req[r].kind = "approval_decision" /\ req[r].pc = "refresh"
    /\ PublishAll(<<ShellState(context.active_apps, context.focused_app),
                    AppSurfaceOps(context.active_apps),
                    Notification("success", "handoff allowed"),
                    Done("handoff_resolved")>>)
    /\ Finish(r)
    /\ UNCHANGED <<context, chan, rx, pub, crateVars>>

\* --------------------------------------------------- server.rs: stream_session

\* GET /api/os/stream: ensure_session, subscribe, publish Ping (lines 157-167).
StreamSessionStart(r) ==
    /\ Arrives(r)
    /\ PublishAll(<<Ping>>)
    /\ req' = [req EXCEPT ![r] = [kind |-> "stream_session", pc |-> "replay",
                                  arg |-> Nothing, snap |-> Nothing]]
    /\ UNCHANGED <<context, chan, rx, pub, crateVars>>

\* What a connecting stream republishes from the context (lines 169-208).
ReplayEvents(ctx) ==
    (IF ctx.active_apps # <<>>
     THEN <<ShellState(ctx.active_apps, ctx.focused_app), AppSurfaceOps(ctx.active_apps)>>
     ELSE <<>>)
    \o (IF ctx.pending_approval # Nothing
        THEN <<ApprovalRequired(ctx.pending_approval[1].action_id,
                                ctx.pending_approval[1].app_id,
                                ctx.pending_approval[1].risk)>>
        ELSE <<>>)

\* get_context (line 169) and the replay; the response then streams.
StreamSessionReplay(r) ==
    /\ req[r].kind = "stream_session" /\ req[r].pc = "replay"
    /\ PublishAll(ReplayEvents(context))
    /\ Finish(r)
    /\ UNCHANGED <<context, chan, rx, pub, crateVars>>

\* ------------------------------------------------------ the session channel

MaxTasks == 2
MaxClients == 1
MaxConnections == 2
MaxSeq == 4
MaxRecv == 4
Overrun == 2

Tasks == 1..MaxTasks
Clients == 1..MaxClients

\* broadcast::channel(CHANNEL_CAPACITY): `buf` holds the retained messages,
\* oldest first, and `sent` counts the messages the channel accepted, so the
\* message at buf[i] has position sent - Len(buf) + i.
EmptyChannel == [buf |-> <<>>, sent |-> 0]

Oldest(ch) == ch.sent - Len(ch.buf) + 1

\* tx.send: an error, and nothing kept, when no receiver is subscribed;
\* otherwise the message is stored at once, over the oldest one when all
\* CHANNEL_CAPACITY slots are taken.
BroadcastSend(ch, message, receivers) ==
    IF receivers = 0 THEN ch
    ELSE [buf  |-> IF Len(ch.buf) < CHANNEL_CAPACITY
                   THEN Append(ch.buf, message)
                   ELSE Append(Tail(ch.buf), message),
          sent |-> ch.sent + 1]

\* rx.recv of a receiver whose next position is `next` (next <= ch.sent): a
\* receiver that fell behind the oldest retained message gets Lagged with the
\* number of messages it skipped and is moved to the oldest one.
BroadcastRecv(ch, next) ==
    IF next < Oldest(ch)
    THEN [lagged |-> TRUE, skipped |-> Oldest(ch) - next, next |-> Oldest(ch)]
    ELSE [lagged |-> FALSE, message |-> ch.buf[next - Oldest(ch) + 1], next |-> next + 1]

ClientLagged(skipped) == [level |-> "warn", message |-> "client lagged", skipped |-> skipped]

\* The loop with a Lagged arm that only goes on to the next message.
Yielded_IgnoresLagged(received) ==
    IF received.lagged THEN <<>> ELSE <<received.message>>

\* stream_session lines 211-222: what the loop yields to the client for the
\* result of rx.recv.
Yielded(received) ==
    IF received.lagged THEN <<ClientLagged(received.skipped)>> ELSE <<received.message>>

IdleTask == [pc |-> "idle", seq |-> 0]

\* A client of GET /stream: `got` is all it was sent over its connections;
\* `start`, `since` and `base` are the channel position, the number of
\* published messages and the length of `got` when it last subscribed;
\* `last_seq` is the highest seq it had seen by then.
ClosedClient ==
    [pc |-> "closed", next |-> 1, seq |-> 0, got |-> <<>>, connections |-> 0,
     start |-> 1, since |-> 0, base |-> 0, last_seq |-> 0]

ReceiverCount == Cardinality({ c \in Clients : rx[c].pc # "closed" })

TaskPayload == Notification("info", "event")

\* session.rs line 93: the sequence number is taken.
FetchSeq == server_seq' = server_seq + 1

\* publish that hands the envelope over only while the channel has a free slot.
SendEnvelope_SkipsWhenFull(seq, payload) ==
    /\ stream' = Append(stream, SseEnvelope(seq, payload))
    /\ chan' = IF Len(chan.buf) >= CHANNEL_CAPACITY THEN chan
               ELSE BroadcastSend(chan, SseEnvelope(seq, payload), ReceiverCount)

\* session.rs lines 94-97: the envelope with the sequence number taken
\* earlier is handed to the channel.
SendEnvelope(seq, payload) ==
    /\ stream' = Append(stream, SseEnvelope(seq, payload))
    /\ chan' = BroadcastSend(chan, SseEnvelope(seq, payload), ReceiverCount)

\* A handler task calls publish: first half.
PublishFetch(t) ==
    /\ pub[t].pc = "idle"
    /\ FetchSeq
    /\ pub' = [pub EXCEPT ![t] = [pc |-> "send", seq |-> server_seq + 1]]
    /\ UNCHANGED <<context, stream, req, chan, rx, crateVars>>

\* A handler task calls publish: second half.
PublishSend(t) ==
    /\ pub[t].pc = "send"
    /\ SendEnvelope(pub[t].seq, TaskPayload)
    /\ pub' = [pub EXCEPT ![t] = IdleTask]
    /\ UNCHANGED <<server_seq, context, req, rx, crateVars>>

IsEnvelope(item) == "seq" \in DOMAIN item

RECURSIVE MaxSeen(_)
MaxSeen(items) ==
    IF items = <<>> THEN 0
    ELSE LET rest == MaxSeen(Tail(items))
             head == Head(items)
         IN IF IsEnvelope(head) /\ head.seq > rest THEN head.seq ELSE rest

\* stream_session lines 157-162: the client is subscribed at the tail of the
\* channel, whatever it received on an earlier connection.
ClientSubscribe(c) ==
    /\ rx[c].pc = "closed"
    /\ rx' = [rx EXCEPT ![c] = [@ EXCEPT !.pc = "ping",
                                         !.next = chan.sent + 1,
                                         !.start = chan.sent + 1,
                                         !.since = Len(stream),
                                         !.base = Len(rx[c].got),
                                         !.last_seq = MaxSeen(rx[c].got),
                                         !.connections = @ + 1]]
    /\ UNCHANGED <<server_seq, context, stream, req, chan, pub, crateVars>>

\* stream_session lines 164-167, first half of the publish of Ping.
ClientPingFetch(c) ==
    /\ rx[c].pc = "ping"
    /\ FetchSeq
    /\ rx' = [rx EXCEPT ![c] = [@ EXCEPT !.pc = "ping_send", !.seq = server_seq + 1]]
    /\ UNCHANGED <<context, stream, req, chan, pub, crateVars>>

\* stream_session lines 164-167, second half; the context of a session no
\* request was made on has nothing to replay (lines 169-208).
ClientPingSend(c) ==
    /\ rx[c].pc = "ping_send"
    /\ context.active_apps = <<>> /\ context.pending_approval = Nothing
    /\ SendEnvelope(rx[c].seq, Ping)
    /\ rx' = [rx EXCEPT ![c] = [@ EXCEPT !.pc = "recv"]]
    /\ UNCHANGED <<server_seq, context, req, pub, crateVars>>

\* stream_session lines 210-225: one turn of the loop that has a message or
\* a lag to report.
ClientRecv(c) ==
    /\ rx[c].pc = "recv"
    /\ rx[c].next <= chan.sent
    /\ LET received == BroadcastRecv(chan, rx[c].next)
       IN rx' = [rx EXCEPT ![c] = [@ EXCEPT !.next = received.next,
                                            !.got = @ \o Yielded(received)]]
    /\ UNCHANGED <<server_seq, context, stream, req, chan, pub, crateVars>>

\* The client closes the connection: the stream and its receiver are dropped.
ClientDisconnect(c) ==
    /\ rx[c].pc = "recv"
    /\ rx' = [rx EXCEPT ![c] = [@ EXCEPT !.pc = "closed"]]
    /\ UNCHANGED <<server_seq, context, stream, req, chan, pub, crateVars>>

\* ------------------------------------------- adk-mistralrs/src/client.rs

MaxChunks == 3

\* Strings are sequences of characters; push_str is concatenation.
Texts == {<<>>, <<"a">>, <<"b", "c">>}

\* choice.finish_reason as mistral.rs reports it.
FinishStrings == {"stop", "length", "tool_calls"}

\* What the provider's stream hands over before its last item: a chunk whose
\* first choice carries a delta with or without content, a chunk without
\* choices, or a response of another kind (an error).
ChunkResponses ==
    {[kind |-> "chunk", choices |-> <<[content |-> Some(text)]>>] : text \in Texts}
      \cup {[kind |-> "chunk", choices |-> <<[content |-> Nothing]>>],
            [kind |-> "chunk", choices |-> <<>>],
            [kind |-> "error", choices |-> <<>>]}

\* ChatCompletionResponse: what send_chat_request returns, and what
\* Response::Done carries as the last item of a stream.
ChatCompletionResponses ==
    {[kind |-> "done", choices |-> <<[content |-> c, finish_reason |-> f]>>] :
        c \in {Nothing, Some(<<"a">>)}, f \in FinishStrings}
      \cup {[kind |-> "done", choices |-> <<>>]}

RECURSIVE SeqsUpTo(_, _)
SeqsUpTo(S, n) ==
    IF n = 0 THEN {<<>>}
    ELSE LET shorter == SeqsUpTo(S, n - 1)
         IN shorter \cup {Append(s, x) : s \in {t \in shorter : Len(t) = n - 1}, x \in S}

ProviderStreams ==
    LET chunks == SeqsUpTo(ChunkResponses, MaxChunks)
    IN chunks \cup {Append(s, done) : s \in chunks, done \in ChatCompletionResponses}

\* LlmResponse, the fields generate_content sets apart from the usage.
LlmResponse(content, finish_reason, partial) ==
    [content |-> content, finish_reason |-> finish_reason, partial |-> partial,
     turn_complete |-> ~partial]

AdkError == [error |-> "Model"]

\* Lines 217-226: the match on choice.finish_reason.
normalize_finish_reason(finish_reason) ==
    IF finish_reason = "stop" THEN "Stop"
    ELSE IF finish_reason = "length" THEN "MaxTokens"
    ELSE "Other"

\* Lines 202-238: the response of a call that does not stream.
convert_response(response) ==
    LlmResponse(IF response.choices = <<>> THEN Nothing ELSE response.choices[1].content,
                IF response.choices = <<>> THEN None
                ELSE normalize_finish_reason(response.choices[1].finish_reason),
                FALSE)

NoTurn ==
    [pc |-> "none", stream |-> FALSE, provider |-> <<>>, pos |-> 0,
     accumulated_text |-> <<>>, yielded |-> <<>>]

\* generate_content(request, stream), before the returned stream is polled:
\* `provider` is what mistral.rs will answer, `pos` how much of it was taken.
Turns ==
    {[NoTurn EXCEPT !.pc = "request", !.stream = TRUE, !.provider = p] :
        p \in ProviderStreams}
      \cup {[NoTurn EXCEPT !.pc = "request", !.provider = <<response>>] :
              response \in ChatCompletionResponses}

\* The provider's next response.
NextResponse == turn.provider[turn.pos + 1]

\* Lines 264-270 and 316-318: stream_chat_request answers, or its error is
\* the only item yielded.
StreamChatRequest(ok) ==
    /\ turn.pc = "request" /\ turn.stream
    /\ turn' = IF ok THEN [turn EXCEPT !.pc = "loop", !.accumulated_text = <<>>]
               ELSE [turn EXCEPT !.pc = "end", !.yielded = <<AdkError>>]
    /\ UNCHANGED exceptTurn

\* Lines 322-331: without streaming, send_chat_request fails with the
\* provider's error or its response is converted and yielded alone.
SendChatRequest(ok) ==
    /\ turn.pc = "request" /\ ~turn.stream
    /\ turn' = IF ok THEN [turn EXCEPT !.pc = "end", !.pos = 1,
                                       !.yielded = <<convert_response(NextResponse)>>]
               ELSE [turn EXCEPT !.pc = "end", !.yielded = <<AdkError>>]
    /\ UNCHANGED exceptTurn

\* The loop that appends nothing to accumulated_text.
OnChunk_ForgetsText(chunk_response) ==
    IF chunk_response.choices # <<>> /\ chunk_response.choices[1].content # Nothing
    THEN [turn EXCEPT !.pos = @ + 1,
                      !.yielded = Append(@, LlmResponse(chunk_response.choices[1].content,
                                                        None, TRUE))]
    ELSE [turn EXCEPT !.pos = @ + 1]

\* Lines 274-292: a chunk whose first choice has content is appended to
\* accumulated_text and yielded as a partial response.
OnChunk(chunk_response) ==
    IF chunk_response.choices # <<>> /\ chunk_response.choices[1].content # Nothing
    THEN LET content == chunk_response.choices[1].content
         IN [turn EXCEPT !.pos = @ + 1,
                         !.accumulated_text = @ \o content[1],
                         !.yielded = Append(@, LlmResponse(content, None, TRUE))]
    ELSE [turn EXCEPT !.pos = @ + 1]

\* Lines 293-311: Response::Done yields the accumulated text as the final,
\* non-partial response, with FinishReason::Stop.
OnDone(final_response) ==
    [turn EXCEPT !.pos = @ + 1,
                 !.yielded = Append(@, LlmResponse(Some(turn.accumulated_text), "Stop", FALSE))]

Polling == turn.pc = "loop" /\ turn.pos < Len(turn.provider)

\* One turn of `while let Some(chunk) = stream.next().await`.
StreamNextChunk ==
    /\ Polling /\ NextResponse.kind = "chunk"
    /\ turn' = OnChunk(NextResponse)
    /\ UNCHANGED exceptTurn

StreamNextDone ==
    /\ Polling /\ NextResponse.kind = "done"
    /\ turn' = OnDone(NextResponse)
    /\ UNCHANGED exceptTurn

\* Line 312: any other response is skipped.
StreamNextOther ==
    /\ Polling /\ NextResponse.kind \notin {"chunk", "done"}
    /\ turn' = [turn EXCEPT !.pos = @ + 1]
    /\ UNCHANGED exceptTurn

\* stream.next() returns None: the response stream ends.
StreamEnds ==
    /\ turn.pc = "loop" /\ turn.pos = Len(turn.provider)
    /\ turn' = [turn EXCEPT !.pc = "end"]
    /\ UNCHANGED exceptTurn

\* ----------------------------------------------- adk-tool/src/mcp/toolset.rs

MaxDepth == 3

\* serde_json::Value: a string stands for every scalar, a map for an object.
JsonString == [t |-> "string"]
JsonArray(items) == [t |-> "array", items |-> items]
JsonObject(map) == [t |-> "object", map |-> map]

SchemaKeys == {"$schema", "additionalProperties", "definitions", "$ref", "properties"}

\* The key sets of the objects: none, one key, or a removed key beside
\* "properties".
KeySets ==
    {{}} \cup {{k} : k \in SchemaKeys} \cup {{k, "properties"} : k \in SchemaKeys}

\* The values nested at most `depth` deep: arrays of no or two items and
\* objects over KeySets.
RECURSIVE JsonValues(_)
JsonValues(depth) ==
    IF depth = 0 THEN {JsonString}
    ELSE LET inner == JsonValues(depth - 1)
         IN {JsonString}
              \cup {JsonArray(<<>>)}
              \cup {JsonArray(<<JsonString, v>>) : v \in inner}
              \cup {JsonObject([k \in keys |-> v]) : keys \in KeySets, v \in inner}

\* mcp_tool.input_schema is a JSON object.
ToolSchemas == {v \in JsonValues(MaxDepth) : v.t = "object"}

\* sanitize_schema that removes the keys of the schema's root only.
sanitize_schema_RootOnly(value) ==
    IF value.t = "object"
    THEN JsonObject([k \in DOMAIN value.map
                        \ {"$schema", "definitions", "$ref", "additionalProperties"}
                      |-> value.map[k]])
    ELSE value

\* Lines 30-45.
RECURSIVE sanitize_schema(_)
sanitize_schema(value) ==
    IF value.t = "object"
    THEN JsonObject([k \in DOMAIN value.map
                        \ {"$schema", "definitions", "$ref", "additionalProperties"}
                      |-> sanitize_schema(value.map[k])])
    ELSE IF value.t = "array"
    THEN JsonArray([i \in 1..Len(value.items) |-> sanitize_schema(value.items[i])])
    ELSE value

\* `mcp_tool` is the tool as list_all_tools returned it (lines 215-219),
\* the schemas are those of the McpTool made of it.
NoTool ==
    [pc |-> "none", mcp_tool |-> Nothing, input_schema |-> Nothing, output_schema |-> Nothing]

McpTools ==
    UNION {{[input_schema |-> input, output_schema |-> output] :
               output \in {Nothing, Some(input)}} : input \in ToolSchemas}

ListedTools == {[NoTool EXCEPT !.pc = "listed", !.mcp_tool = Some(tool)] : tool \in McpTools}

\* Lines 226-231: the tool filter refuses the tool.
ToolFiltered ==
    /\ mcp.pc = "listed"
    /\ mcp' = [mcp EXCEPT !.pc = "skipped"]
    /\ UNCHANGED exceptMcp

\* Lines 233-251: the McpTool handed to the agent, whose parameters_schema
\* is input_schema (lines 505-507).
ToolConverted ==
    /\ mcp.pc = "listed"
    /\ LET mcp_tool == mcp.mcp_tool[1]
       IN mcp' = [mcp EXCEPT
                    !.pc = "tool",
                    !.input_schema = Some(sanitize_schema(mcp_tool.input_schema)),
                    !.output_schema = IF mcp_tool.output_schema = Nothing THEN Nothing
                                      ELSE Some(sanitize_schema(mcp_tool.output_schema[1]))]
    /\ UNCHANGED exceptMcp

\* ------------------------------------------------ adk-guardrail/src/schema.rs

MaxTextLen == 4

\* A text is a sequence of pieces: the fences, two JSON documents (one that
\* satisfies the validator's schema and one that violates it), words that
\* are not JSON, and white space. [fence] stands for the three backticks,
\* [LF] and [CR] for the line feed and carriage return characters.
FenceJson == "[fence]json[LF]"
FencePlain == "[fence][LF]"
FenceBare == "[fence]"
ValidJson == "{name: Bob}"
InvalidJson == "{age: 30}"

Pieces == {FenceJson, FencePlain, FenceBare, ValidJson, InvalidJson, "result:", " "}

GuardTexts == SeqsUpTo(Pieces, MaxTextLen)

\* str::trim over the pieces.
RECURSIVE trim_start(_)
trim_start(text) ==
    IF text # <<>> /\ Head(text) = " " THEN trim_start(Tail(text)) ELSE text

RECURSIVE trim_end(_)
trim_end(text) ==
    IF text # <<>> /\ text[Len(text)] = " " THEN trim_end(SubSeq(text, 1, Len(text) - 1))
    ELSE text

trim(text) == trim_end(trim_start(text))

\* serde_json::from_str: one JSON document with white space around it.
from_str(text) ==
    LET document == trim(text)
    IN IF Len(document) = 1 /\ document[1] \in {ValidJson, InvalidJson}
       THEN Some(document[1]) ELSE Nothing

\* str::find of a start marker, and of the end marker [fence], which every
\* fence begins with: the index of the first such piece, 0 for None.
find(text, marker) ==
    LET hits == {i \in 1..Len(text) : text[i] = marker}
    IN IF hits = {} THEN 0 ELSE CHOOSE i \in hits : \A j \in hits : i <= j

find_end_marker(text) ==
    LET hits == {i \in 1..Len(text) :
                    text[i] \in {FenceJson, "[fence]json[CR][LF]", FencePlain,
                                  "[fence][CR][LF]", FenceBare}}
    IN IF hits = {} THEN 0 ELSE CHOOSE i \in hits : \A j \in hits : i <= j

start_markers == <<FenceJson, "[fence]json[CR][LF]", FencePlain, "[fence][CR][LF]">>

\* Lines 53-66: the body of the first block of the first start marker that
\* has an end marker after it.
RECURSIVE extract_json_from_markdown_loop(_, _)
extract_json_from_markdown_loop(text, m) ==
    IF m > Len(start_markers) THEN Nothing
    ELSE LET start_idx == find(text, start_markers[m])
             rest == SubSeq(text, start_idx + 1, Len(text))
             end_idx == find_end_marker(rest)
         IN IF start_idx # 0 /\ end_idx # 0
            THEN Some(trim(SubSeq(rest, 1, end_idx - 1)))
            ELSE extract_json_from_markdown_loop(text, m + 1)

extract_json_from_markdown(text) == extract_json_from_markdown_loop(text, 1)

\* The body of the loop of extract_json (lines 37-47) for one part.
extract_part(part) ==
    IF part.kind # "text" THEN Nothing
    ELSE IF from_str(part.text) # Nothing THEN from_str(part.text)
    ELSE LET json_str == extract_json_from_markdown(part.text)
         IN IF json_str # Nothing THEN from_str(json_str[1]) ELSE Nothing

\* extract_json that never looks into markdown.
RECURSIVE extract_json_RawOnly(_)
extract_json_RawOnly(parts) ==
    IF parts = <<>> THEN Nothing
    ELSE IF Head(parts).kind = "text" /\ from_str(Head(parts).text) # Nothing
    THEN from_str(Head(parts).text)
    ELSE extract_json_RawOnly(Tail(parts))

\* Lines 35-51: the JSON of the first part that yields one.
RECURSIVE extract_json(_)
extract_json(parts) ==
    IF parts = <<>> THEN Nothing
    ELSE IF extract_part(Head(parts)) # Nothing THEN extract_part(Head(parts))
    ELSE extract_json(Tail(parts))

\* Validator::validate for the schema of the tests, which requires "name".
validator_validate(json) == json = ValidJson

GuardrailPass == [kind |-> "Pass", reason |-> ""]
GuardrailFail(reason) == [kind |-> "Fail", reason |-> reason]

\* Lines 76-96.
validate(content) ==
    LET json == extract_json(content)
    IN IF json = Nothing THEN GuardrailFail("Content does not contain valid JSON")
       ELSE IF ~validator_validate(json[1]) THEN GuardrailFail("Schema validation failed")
       ELSE GuardrailPass

TextPart(text) == [kind |-> "text", text |-> text]
OtherPart == [kind |-> "inline_data", text |-> <<>>]

\* Content: one text part, alone or after another part.
Contents ==
    {<<TextPart(text)>> : text \in GuardTexts}
      \cup {<<first, TextPart(text)>> :
              first \in {OtherPart, TextPart(<<InvalidJson>>),
                          TextPart(<<"result:", FenceJson, ValidJson, FenceBare>>)},
              text \in GuardTexts}

NoGuard == [pc |-> "none", content |-> <<>>, result |-> GuardrailPass]

Validate ==
    /\ guard.pc = "call"
    /\ guard' = [guard EXCEPT !.pc = "returned", !.result = validate(guard.content)]
    /\ UNCHANGED exceptGuard

\* -------------------------------- adk-rag/src/config.rs, pipeline.rs, chunking.rs

MaxChunkSize == 2
MaxDocLen == 3

DefaultChunkSize == 512
DefaultChunkOverlap == 100
DefaultTopK == 10

\* The usize values a caller passes for sizes, overlaps and top_k.
ChunkSizes == 0..MaxChunkSize \cup {DefaultChunkSize}
ChunkOverlaps == 0..MaxChunkSize \cup {DefaultChunkOverlap}
TopKs == {0, 1, DefaultTopK}

RagConfig(chunk_size, chunk_overlap, top_k) ==
    [chunk_size |-> chunk_size, chunk_overlap |-> chunk_overlap, top_k |-> top_k]

RagConfigs ==
    {RagConfig(chunk_size, chunk_overlap, top_k) :
        chunk_size \in ChunkSizes, chunk_overlap \in ChunkOverlaps, top_k \in TopKs}

\* RagPipelineBuilder::default(): nothing set.
EmptyBuilder ==
    [config |-> Nothing, embedding_provider |-> FALSE, vector_store |-> FALSE,
     chunker |-> Nothing]

\* The caller: its pipeline builder, the pipeline it built, the last error
\* a build returned, and what ingest and query did on the pipeline.
NoRag ==
    [builder |-> EmptyBuilder, pipeline |-> Nothing, error |-> None,
     stored |-> 0, results |-> 0, ran |-> FALSE]

\* RagConfigBuilder::build, config.rs 71-82.
RagConfigBuilderBuild(config) ==
    IF config.chunk_overlap >= config.chunk_size THEN [ok |-> FALSE, config |-> config]
    ELSE IF config.top_k = 0 THEN [ok |-> FALSE, config |-> config]
    ELSE [ok |-> TRUE, config |-> config]

\* RagPipelineBuilder::config (pipeline.rs 234-237) of the value of
\* RagConfig::builder() with its setters and build()?.
BuilderConfigBuilt(config) ==
    /\ rag.pipeline = Nothing
    /\ LET built == RagConfigBuilderBuild(config)
       IN rag' = IF built.ok
                 THEN [rag EXCEPT !.builder.config = Some(built.config), !.error = None]
                 ELSE [rag EXCEPT !.error = "ConfigError"]
    /\ UNCHANGED exceptRag

\* RagPipelineBuilder::config of a RagConfig made without the builder:
\* RagConfig has public fields, Default and Deserialize (config.rs 8-24).
BuilderConfigLiteral(config) ==
    /\ rag.pipeline = Nothing
    /\ rag' = [rag EXCEPT !.builder.config = Some(config), !.error = None]
    /\ UNCHANGED exceptRag

BuilderEmbeddingProvider ==
    /\ rag.pipeline = Nothing
    /\ rag' = [rag EXCEPT !.builder.embedding_provider = TRUE]
    /\ UNCHANGED exceptRag

BuilderVectorStore ==
    /\ rag.pipeline = Nothing
    /\ rag' = [rag EXCEPT !.builder.vector_store = TRUE]
    /\ UNCHANGED exceptRag

\* RagPipelineBuilder::chunker with FixedSizeChunker::new(chunk_size,
\* chunk_overlap), chunking.rs 49-51: nothing is checked.
BuilderChunker(chunk_size, chunk_overlap) ==
    /\ rag.pipeline = Nothing
    /\ rag' = [rag EXCEPT !.builder.chunker =
                   Some([chunk_size |-> chunk_size, chunk_overlap |-> chunk_overlap])]
    /\ UNCHANGED exceptRag

\* RagPipelineBuilder::build, pipeline.rs 268-287.
RagPipelineBuilderBuild ==
    /\ rag.pipeline = Nothing
    /\ rag' = IF \/ rag.builder.config = Nothing
                 \/ ~rag.builder.embedding_provider
                 \/ ~rag.builder.vector_store
                 \/ rag.builder.chunker = Nothing
              THEN [rag EXCEPT !.error = "ConfigError"]
              ELSE [rag EXCEPT !.error = None,
                               !.pipeline = Some([config |-> rag.builder.config[1],
                                                  chunker |-> rag.builder.chunker[1]])]
    /\ UNCHANGED exceptRag

\* saturating_sub on usize.
saturating_sub(a, b) == IF a >= b THEN a - b ELSE 0

\* FixedSizeChunker::chunk, chunking.rs 55-89: the number of chunks of a
\* text of text_len characters, from position start on.
RECURSIVE chunk_loop(_, _, _)
chunk_loop(chunker, text_len, start) ==
    IF start >= text_len THEN 0
    ELSE LET step == saturating_sub(chunker.chunk_size, chunker.chunk_overlap)
         IN IF step = 0 THEN 1 ELSE 1 + chunk_loop(chunker, text_len, start + step)

chunk(chunker, text_len) == IF text_len = 0 THEN 0 ELSE chunk_loop(chunker, text_len, 0)

\* RagPipeline::ingest, pipeline.rs 106-138, with an embedding provider and
\* a store that do not fail: every chunk has an id of its own.
Ingest(text_len) ==
    /\ rag.pipeline # Nothing
    /\ ~rag.ran
    /\ rag' = [rag EXCEPT !.stored = chunk(rag.pipeline[1].chunker, text_len)]
    /\ UNCHANGED exceptRag

\* RagPipeline::query, pipeline.rs 169-204, on the in-memory store, whose
\* search truncates to top_k, with threshold 0.0 and no reranker.
Query ==
    /\ rag.pipeline # Nothing
    /\ ~rag.ran
    /\ LET top_k == rag.pipeline[1].config.top_k
       IN rag' = [rag EXCEPT !.ran = TRUE,
                             !.results = IF rag.stored <= top_k THEN rag.stored ELSE top_k]
    /\ UNCHANGED exceptRag

\* ------------------------------------------------- adk-rag/src/inmemory.rs

MaxStored == 3
MaxTopK == 2

ChunkIds == 1..MaxStored

\* An f32: a number or NaN.
F32(v) == [nan |-> FALSE, v |-> v]
NaN == [nan |-> TRUE, v |-> 0]

\* The embeddings of chunks and queries: vectors of two f32, one of them
\* of zero magnitude and one with a NaN component.
Embeddings ==
    {<<F32(0), F32(0)>>, <<F32(0), F32(1)>>, <<F32(1), F32(0)>>, <<F32(1), F32(1)>>,
     <<F32(-1), F32(0)>>, <<NaN, F32(0)>>}

\* A score: NaN or the real number num / sqrt(den2), den2 > 0.
Score(num, den2) == [nan |-> FALSE, num |-> num, den2 |-> den2]
ScoreNaN == [nan |-> TRUE, num |-> 0, den2 |-> 1]

HasNaN(a) == \E i \in 1..Len(a) : a[i].nan

dot(a, b) == a[1].v * b[1].v + a[2].v * b[2].v

\* cosine_similarity, lines 45-53, in real arithmetic for vectors without
\* NaN; a NaN component makes dot and the norm NaN, and so the quotient.
cosine_similarity(a, b) ==
    IF HasNaN(a) \/ HasNaN(b) THEN ScoreNaN
    ELSE IF dot(a, a) = 0 \/ dot(b, b) = 0 THEN Score(0, 1)
    ELSE Score(dot(a, b), dot(a, a) * dot(b, b))

\* s < t on f32: false when either is NaN.
ScoreLess(s, t) ==
    IF s.nan \/ t.nan THEN FALSE
    ELSE IF s.num >= 0 /\ t.num <= 0 THEN FALSE
    ELSE IF s.num < 0 /\ t.num >= 0 THEN TRUE
    ELSE IF s.num > 0 THEN s.num * s.num * t.den2 < t.num * t.num * s.den2
    ELSE s.num * s.num * t.den2 > t.num * t.num * s.den2

\* s >= t on f32: false when either is NaN.
ScoreGeq(s, t) == ~s.nan /\ ~t.nan /\ ~ScoreLess(s, t)

\* The comparator of line 113, b.score.partial_cmp(&a.score).unwrap_or(Equal).
compare(a, b) ==
    IF a.score.nan \/ b.score.nan THEN "Equal"
    ELSE IF ScoreLess(b.score, a.score) THEN "Less"
    ELSE IF ScoreLess(a.score, b.score) THEN "Greater"
    ELSE "Equal"

Orders(scored) ==
    {order \in [1..Cardinality(scored) -> scored] :
        \A i, j \in 1..Cardinality(scored) : i # j => order[i] # order[j]}

\* Vec::sort_by on the items of store.values(), which come in any order.
\* With a comparator that is a total order the result is ordered by it;
\* this one is not when a score is NaN, and the order is then unspecified.
sort_by(scored) ==
    IF \E item \in scored : item.score.nan THEN Orders(scored)
    ELSE {order \in Orders(scored) :
            \A i \in 1..(Cardinality(scored) - 1) : compare(order[i], order[i + 1]) # "Greater"}

truncate(results, top_k) == SubSeq(results, 1, IF Len(results) <= top_k THEN Len(results) ELSE top_k)

EmptyCollection == [id \in ChunkIds |-> Nothing]

Chunk(id, embedding) == [id |-> id, embedding |-> embedding]

NoStore == [collection |-> Nothing, found |-> Nothing]

\* Lines 57-61: or_default keeps a collection that exists.
CreateCollection ==
    /\ store' = [collection |-> IF store.collection = Nothing THEN Some(EmptyCollection)
                                ELSE store.collection,
                 found |-> Nothing]
    /\ UNCHANGED exceptStore

\* Lines 63-67.
DeleteCollection ==
    /\ store.collection # Nothing
    /\ store' = [collection |-> Nothing, found |-> Nothing]
    /\ UNCHANGED exceptStore

\* Lines 69-79, for a slice of one chunk.
Upsert(new) ==
    /\ store.collection # Nothing
    /\ store' = [collection |-> Some([store.collection[1] EXCEPT ![new.id] = Some(new.embedding)]),
                 found |-> Nothing]
    /\ UNCHANGED exceptStore

\* Lines 81-91.
Delete(ids) ==
    /\ store.collection # Nothing
    /\ store' = [collection |-> Some([id \in ChunkIds |->
                                        IF id \in ids THEN Nothing ELSE store.collection[1][id]]),
                 found |-> Nothing]
    /\ UNCHANGED exceptStore

\* Lines 93-116.
Search(embedding, top_k) ==
    /\ store.collection # Nothing
    /\ LET scored == {[id |-> id,
                       score |-> cosine_similarity(store.collection[1][id][1], embedding)] :
                        id \in {i \in ChunkIds : store.collection[1][i] # Nothing}}
       IN \E sorted \in sort_by(scored) :
             store' = [store EXCEPT !.found = Some([embedding |-> embedding, top_k |-> top_k,
                                                    results |-> truncate(sorted, top_k)])]
    /\ UNCHANGED exceptStore

\* ------------------------------------------------ adk-auth/src/sso/jwks.rs

MaxNow == 6

\* The interval given to with_refresh_interval, in seconds.
refresh_interval == 4

Kids == {"kid1", "kid2"}

\* JwksCache::new, lines 37-45, with the endpoint serving `served`, at
\* second 1 of the clock. `call` is the last get_key: what it was asked,
\* whether the key was cached, whether the JWKS was fetched, the seconds
\* since the last refresh (0 for never), what the endpoint served, and
\* the result.
NewJwks(served) ==
    [keys |-> {}, last_refresh |-> 0, now |-> 1, served |-> served, call |-> Nothing]

\* Lines 73-116: the cache after refresh, and whether it fetched.
refresh(cache, fetch_ok) ==
    IF cache.last_refresh > 0 /\ cache.now - cache.last_refresh < refresh_interval \div 2
    THEN [cache |-> cache, fetched |-> FALSE, ok |-> TRUE]
    ELSE IF ~fetch_ok THEN [cache |-> cache, fetched |-> TRUE, ok |-> FALSE]
    ELSE [cache |-> [cache EXCEPT !.keys = cache.served, !.last_refresh = cache.now],
          fetched |-> TRUE, ok |-> TRUE]

\* get_key, lines 56-70.
GetKey(kid, fetch_ok) ==
    /\ LET cached == kid \in jwks.keys
           refreshed == refresh(jwks, fetch_ok)
           after == IF cached THEN jwks ELSE refreshed.cache
           result == IF cached THEN "Ok"
                     ELSE IF ~refreshed.ok THEN "JwksFetchError"
                     ELSE IF kid \in after.keys THEN "Ok"
                     ELSE "KeyNotFound"
       IN jwks' = [after EXCEPT !.call =
                      Some([kid |-> kid, cached |-> cached,
                            fetched |-> ~cached /\ refreshed.fetched,
                            fetch_ok |-> fetch_ok,
                            refreshed_before |-> jwks.last_refresh > 0,
                            elapsed |-> jwks.now - jwks.last_refresh,
                            served |-> jwks.served,
                            result |-> result])]
    /\ UNCHANGED exceptJwks

\* The identity provider rotates its keys.
Rotate(served) ==
    /\ served # jwks.served
    /\ jwks' = [jwks EXCEPT !.served = served, !.call = Nothing]
    /\ UNCHANGED exceptJwks

\* A second passes.
Tick ==
    /\ jwks.now < MaxNow
    /\ jwks' = [jwks EXCEPT !.now = @ + 1, !.call = Nothing]
    /\ UNCHANGED exceptJwks

\* ------------------------- adk-auth/src/sso/jwks.rs: concurrent callers

MaxCallers == 2

MaxClock == 3

Callers == 1..MaxCallers

\* A task that is not inside get_key or refresh: `result` is what its last
\* call returned and `latest` the JWKS that was the last one fetched when
\* it returned.
NoCall == [pc |-> "idle", kid |-> None, now |-> 0, jwks |-> {}, result |-> None,
           latest |-> Nothing]

\* The cache (keys, last_refresh), the clock, what the endpoint serves, the
\* JWKS of the last successful fetch, and the callers.
SharedJwks(served) ==
    [keys |-> {}, last_refresh |-> 0, now |-> 1, served |-> served, latest |-> Nothing,
     task |-> [t \in Callers |-> NoCall]]

NoSso == SharedJwks({})

Returns(t, result) ==
    [sso.task[t] EXCEPT !.pc = "idle", !.result = result, !.latest = sso.latest]

\* get_key, lines 58-63: the first lookup; a hit returns the key, a miss
\* goes on to refresh.
GetKeyLookup(t, kid) ==
    /\ sso.task[t].pc = "idle"
    /\ sso' = [sso EXCEPT !.task[t] =
                 IF kid \in sso.keys
                 THEN [Returns(t, "Ok") EXCEPT !.kid = kid]
                 ELSE [NoCall EXCEPT !.pc = "check", !.kid = kid]]
    /\ UNCHANGED exceptSso

\* refresh called by the application (line 73).
RefreshCall(t) ==
    /\ sso.task[t].pc = "idle"
    /\ sso' = [sso EXCEPT !.task[t] = [NoCall EXCEPT !.pc = "check"]]
    /\ UNCHANGED exceptSso

\* Where refresh returns Ok to: get_key looks the key up again (line 66),
\* the application gets Ok.
Refreshed(t) ==
    IF sso.task[t].kid = None THEN Returns(t, "Ok")
    ELSE [sso.task[t] EXCEPT !.pc = "recheck"]

\* refresh, lines 74-85: the clock and last_refresh are read; a recent
\* refresh makes this one return without a fetch.
RefreshCheck(t) ==
    /\ sso.task[t].pc = "check"
    /\ sso' = [sso EXCEPT !.task[t] =
                 IF sso.last_refresh > 0 /\ sso.now - sso.last_refresh < refresh_interval \div 2
                 THEN Refreshed(t)
                 ELSE [sso.task[t] EXCEPT !.pc = "fetch", !.now = sso.now]]
    /\ UNCHANGED exceptSso

\* refresh, lines 89-100: the request to the endpoint; a failure is returned
\* (by get_key too, line 63), a JWKS is kept for the steps that follow.
RefreshFetch(t, fetch_ok) ==
    /\ sso.task[t].pc = "fetch"
    /\ sso' = IF fetch_ok
              THEN [sso EXCEPT !.latest = Some(sso.served),
                               !.task[t] = [sso.task[t] EXCEPT !.pc = "clear", !.jwks = sso.served]]
              ELSE [sso EXCEPT !.task[t] = Returns(t, "JwksFetchError")]
    /\ UNCHANGED exceptSso

\* refresh, line 103: keys.clear().
RefreshClear(t) ==
    /\ sso.task[t].pc = "clear"
    /\ sso' = [sso EXCEPT !.keys = {}, !.task[t].pc = "insert"]
    /\ UNCHANGED exceptSso

\* refresh, lines 104-110: one keys.insert of the loop.
RefreshInsert(t) ==
    /\ sso.task[t].pc = "insert"
    /\ \E kid \in sso.task[t].jwks :
          sso' = [sso EXCEPT !.keys = @ \cup {kid}, !.task[t].jwks = @ \ {kid}]
    /\ UNCHANGED exceptSso

\* refresh, lines 112-115: last_refresh.store(now) with the time read at
\* line 74, and Ok.
RefreshStore(t) ==
    /\ sso.task[t].pc = "insert" /\ sso.task[t].jwks = {}
    /\ sso' = [sso EXCEPT !.last_refresh = sso.task[t].now, !.task[t] = Refreshed(t)]
    /\ UNCHANGED exceptSso

\* get_key, lines 66-69: the lookup after refresh.
GetKeyRecheck(t) ==
    /\ sso.task[t].pc = "recheck"
    /\ sso' = [sso EXCEPT !.task[t] =
                 Returns(t, IF sso.task[t].kid \in sso.keys THEN "Ok" ELSE "KeyNotFound")]
    /\ UNCHANGED exceptSso

\* The identity provider rotates its keys.
ProviderRotates(served) ==
    /\ served # sso.served
    /\ sso' = [sso EXCEPT !.served = served]
    /\ UNCHANGED exceptSso

\* A second passes.
SecondPasses ==
    /\ sso.now < MaxClock
    /\ sso' = [sso EXCEPT !.now = @ + 1]
    /\ UNCHANGED exceptSso

\* ------------------------------------------ adk-studio/src/server/sse.rs

MaxStreams == 2

MaxLines == 1

Streams == 1..MaxStreams

\* An SSE event of a stream. `input` is the request whose input the child
\* was working on when it wrote the line the event comes from, and 0 for an
\* event the handler makes itself.
SseEvent(event, input) == [event |-> event, input |-> input]

\* One session_id of SESSIONS: whether its process was spawned, the inputs
\* written to its stdin and not yet answered, the lines in stdout_rx and
\* stderr_rx, how many lines the child wrote for the input it is working
\* on, and the stream requests made with this session_id (a request's
\* number stands for its input).
NoStudio ==
    [spawned |-> FALSE, stdin |-> <<>>, stdout_rx |-> <<>>, stderr_rx |-> <<>>,
     chunks |-> 0, logs |-> 0,
     request |-> [t \in Streams |-> [pc |-> "idle", out |-> <<>>]]]

\* stream_handler, lines 99-109, with get_or_create_session (37-85): no
\* binary and a failed spawn end the stream with an error; otherwise the
\* process of the session is spawned if there is none, and the session
\* event is sent.
StreamOpen(t, has_binary, spawn_ok) ==
    /\ studio.request[t].pc = "idle"
    /\ studio' =
         IF ~has_binary
         THEN [studio EXCEPT !.request[t] =
                  [pc |-> "done", out |-> <<SseEvent("error", 0)>>]]
         ELSE IF ~studio.spawned /\ ~spawn_ok
         THEN [studio EXCEPT !.request[t] =
                  [pc |-> "done", out |-> <<SseEvent("error", 0)>>]]
         ELSE [studio EXCEPT !.spawned = TRUE,
                             !.request[t] = [pc |-> "send", out |-> <<SseEvent("session", 0)>>]]
    /\ UNCHANGED exceptStudio

\* Lines 111-121: the input is written to the stdin of the session's process.
StreamSend(t, write_ok) ==
    /\ studio.request[t].pc = "send"
    /\ studio' =
         IF write_ok
         THEN [studio EXCEPT !.stdin = Append(@, t), !.request[t].pc = "poll"]
         ELSE [studio EXCEPT !.request[t] =
                  [pc |-> "done", out |-> Append(@.out, SseEvent("error", 0))]]
    /\ UNCHANGED exceptStudio

\* Lines 126-130: the 60 seconds are over at the top of the loop.
StreamTimeout(t) ==
    /\ studio.request[t].pc = "poll"
    /\ studio' = [studio EXCEPT !.request[t] =
                     [pc |-> "done", out |-> Append(@.out, SseEvent("error", 0))]]
    /\ UNCHANGED exceptStudio

\* The events of a line of stdout (lines 145-162) and of stderr (164-194).
StdoutEvents(line) ==
    IF line.kind = "RESPONSE"
    THEN <<SseEvent("chunk", line.input), SseEvent("end", line.input)>>
    ELSE <<SseEvent("chunk", line.input)>>

StderrEvents(line) == <<SseEvent("tool_call", line.input)>>

\* Lines 132-199, one turn of the loop that got data: try_recv on both
\* receivers of the session under the lock, then the events of the stdout
\* line and, unless that was a RESPONSE (break at line 160), of the stderr
\* line. A turn that gets nothing sleeps and changes nothing.
StreamPoll(t) ==
    /\ studio.request[t].pc = "poll"
    /\ studio.stdout_rx # <<>> \/ studio.stderr_rx # <<>>
    /\ LET has_out == studio.stdout_rx # <<>>
           has_err == studio.stderr_rx # <<>>
           ends == IF has_out THEN Head(studio.stdout_rx).kind = "RESPONSE" ELSE FALSE
           from_out == IF has_out THEN StdoutEvents(Head(studio.stdout_rx)) ELSE <<>>
           from_err == IF has_err /\ ~ends THEN StderrEvents(Head(studio.stderr_rx)) ELSE <<>>
       IN studio' = [studio EXCEPT
                       !.stdout_rx = IF has_out THEN Tail(@) ELSE @,
                       !.stderr_rx = IF has_err THEN Tail(@) ELSE @,
                       !.request[t] = [pc |-> IF ends THEN "done" ELSE "poll",
                                       out |-> @.out \o from_out \o from_err]]
    /\ UNCHANGED exceptStudio

\* The session's process works on the inputs in the order they were
\* written: it writes up to MaxLines CHUNK lines and log lines for an
\* input, then its RESPONSE line; the reader tasks (lines 60-79) pass the
\* lines on to stdout_rx and stderr_rx.
ChildChunk ==
    /\ studio.stdin # <<>> /\ studio.chunks < MaxLines
    /\ studio' = [studio EXCEPT
                    !.chunks = @ + 1,
                    !.stdout_rx = Append(@, [kind |-> "CHUNK", input |-> Head(studio.stdin)])]
    /\ UNCHANGED exceptStudio

ChildLog ==
    /\ studio.stdin # <<>> /\ studio.logs < MaxLines
    /\ studio' = [studio EXCEPT
                    !.logs = @ + 1,
                    !.stderr_rx = Append(@, [kind |-> "tool_call", input |-> Head(studio.stdin)])]
    /\ UNCHANGED exceptStudio

ChildResponse ==
    /\ studio.stdin # <<>>
    /\ studio' = [studio EXCEPT
                    !.chunks = 0, !.logs = 0, !.stdin = Tail(@),
                    !.stdout_rx = Append(@, [kind |-> "RESPONSE", input |-> Head(studio.stdin)])]
    /\ UNCHANGED exceptStudio

\* ------------------------------- adk-tool/src/mcp/toolset.rs: poll_task

MaxPolls == 3

MaxElapsed == 3

\* task_config as poll_task reads it: timeout_ms and max_poll_attempts are
\* Options (lines 290, 301), absent or a number.
TaskConfigs ==
    {[timeout_ms |-> timeout_ms, max_poll_attempts |-> max_poll_attempts] :
        timeout_ms \in {Nothing} \cup {Some(n) : n \in 1..MaxElapsed},
        max_poll_attempts \in {Nothing} \cup {Some(n) : n \in 0..(MaxPolls - 1)}}

\* What tasks/get answers: an error of the call, or a result with a status
\* string, or with none that parse_task_status finds.
PollResults ==
    {[ok |-> FALSE, status |-> Nothing], [ok |-> TRUE, status |-> Nothing]} \cup
    {[ok |-> TRUE, status |-> Some(status_str)] :
        status_str \in {"pending", "running", "completed", "failed", "cancelled", "working"}}

\* parse_task_status, lines 368-410.
parse_task_status(result) ==
    IF result.status = Nothing THEN "Running"
    ELSE CASE result.status[1] = "pending" -> "Pending"
           [] result.status[1] = "running" -> "Running"
           [] result.status[1] = "completed" -> "Completed"
           [] result.status[1] = "failed" -> "Failed"
           [] result.status[1] = "cancelled" -> "Cancelled"
           [] OTHER -> "Running"

\* poll_task entered: `attempts` and `elapsed` as the loop sees them, both
\* counted up to the bound, `sent` the tasks/get calls made, `answer` the
\* last one's result.
PollTask(config) ==
    [pc |-> "loop", config |-> config, attempts |-> 0, elapsed |-> 0, sent |-> 0,
     answer |-> Nothing, result |-> None]

NoPoll == [PollTask([timeout_ms |-> Nothing, max_poll_attempts |-> Nothing]) EXCEPT !.pc = "none"]

Min(a, b) == IF a < b THEN a ELSE b

\* Lines 289-313, the top of the loop: the timeout, then the attempts, then
\* the sleep, during which time passes, and the count of the attempt.
PollWait(slept) ==
    /\ poll.pc = "loop"
    /\ poll' =
         IF poll.config.timeout_ms # Nothing /\ poll.elapsed >= poll.config.timeout_ms[1]
         THEN [poll EXCEPT !.pc = "returned", !.result = "Timeout"]
         ELSE IF poll.config.max_poll_attempts # Nothing
                 /\ poll.attempts >= poll.config.max_poll_attempts[1]
         THEN [poll EXCEPT !.pc = "returned", !.result = "MaxAttemptsExceeded"]
         ELSE [poll EXCEPT !.pc = "call",
                           !.elapsed = Min(@ + slept, MaxElapsed),
                           !.attempts = Min(@ + 1, MaxPolls)]
    /\ UNCHANGED exceptPoll

\* Lines 321-364: tasks/get and the match on the status.
PollCall(answer) ==
    /\ poll.pc = "call"
    /\ LET status == parse_task_status(answer)
           result == IF ~answer.ok THEN "PollFailed"
                     ELSE CASE status = "Completed" -> "Ok"
                            [] status = "Failed" -> "TaskFailed"
                            [] status = "Cancelled" -> "Cancelled"
                            [] OTHER -> None
       IN poll' = [poll EXCEPT !.sent = Min(@ + 1, MaxPolls),
                               !.answer = Some(answer),
                               !.result = result,
                               !.pc = IF result = None THEN "loop" ELSE "returned"]
    /\ UNCHANGED exceptPoll

\* ------------------------------------ app_runtime/host.rs: route_prompt

\* The prompts routed: those of the handlers, and prompts with keywords of
\* both lists, with a keyword of two words, and with half of one.
RoutePrompts ==
    Prompts \cup {<<"send", "delete">>, <<"scale", "down">>, <<"scale", "up">>}

\* What route_with_llm gets from the router model: nothing usable (the agent
\* failed or its answer did not parse), or selected_apps with a risk that
\* parse_risk_tier reads, or with none.
RouterAnswers ==
    {Nothing} \cup
    {Some([selected_apps |-> selected_apps, risk |-> risk]) :
        selected_apps \in CandidateLists \cup {<<"calendar-agent">>, <<"ops-center">>},
        risk \in RiskTier \cup {None}}

\* The apps with a positive score, best first, that
\* route_with_manifest_similarity hands to normalize_route_selection.
ScoredLists == {<<>>, <<"calendar-agent">>, <<"mail-agent", "ops-center", "calendar-agent">>}

NoRoute == [pc |-> "none", prompt |-> <<>>, answer |-> Nothing, scored |-> <<>>,
            llm |-> FALSE, plan |-> Nothing]

\* InMemoryAgentHost::route_prompt, host.rs 305-311: the route of the
\* router model when route_with_llm returns one, else the manifest route.
RoutePrompt ==
    /\ route.pc = "call"
    /\ route' = [route EXCEPT
                   !.pc = "returned",
                   !.llm = route.answer # Nothing,
                   !.plan = IF route.answer # Nothing
                            THEN Some(route_prompt(route.prompt, route.answer[1].selected_apps,
                                                   route.answer[1].risk))
                            ELSE Some(route_prompt(route.prompt, route.scored, None))]
    /\ UNCHANGED exceptRoute

\* ------------------------------------------------------------------- Spec

Init ==
    /\ server_seq = 0
    /\ context = DefaultContext
    /\ stream = <<>>
    /\ req = [r \in Requests |-> Idle]
    /\ chan = EmptyChannel
    /\ rx = [c \in Clients |-> ClosedClient]
    /\ pub = [t \in Tasks |-> IdleTask]
    /\ sso = NoSso
    /\ studio = NoStudio
    /\ poll = NoPoll
    /\ turn = NoTurn
    /\ mcp = NoTool
    /\ guard = NoGuard
    /\ rag = NoRag
    /\ store = NoStore
    /\ jwks = NewJwks({})
    /\ route = NoRoute

Next ==
    \E r \in Requests :
        \/ \E prompt \in Prompts, candidate_ids \in CandidateLists,
              stated_risk \in StatedRisks :
                MasterPromptStart(r, prompt, candidate_ids, stated_risk)
        \/ MasterPromptUpdate(r)
        \/ MasterPromptGate(r)
        \/ \E app_id \in FocusIds : AppFocusStart(r, app_id)
        \/ AppFocusUpdate(r)
        \/ \E app_id \in CommandApps, command \in Commands :
                AppCommandHandoff(r, app_id, command)
        \/ \E app_id \in CommandApps, command \in Commands, agent_accepts \in BOOLEAN :
                AppCommandExecute(r, app_id, command, agent_accepts)
        \/ \E action_id \in ActionIds, approved \in BOOLEAN :
                ApprovalDecisionStart(r, action_id, approved)
        \/ ApprovalDecisionApply(r)
        \/ ApprovalDecisionRefresh(r)
        \/ StreamSessionStart(r)
        \/ StreamSessionReplay(r)

Spec == Init /\ [][Next]_vars

\* Concurrent publishers and a client that connects, reads, leaves and
\* comes back.
NextStream ==
    \/ \E t \in Tasks :
          \/ server_seq < MaxSeq /\ PublishFetch(t)
          \/ PublishSend(t)
    \/ \E c \in Clients :
          \/ rx[c].connections < MaxConnections /\ ClientSubscribe(c)
          \/ server_seq < MaxSeq /\ ClientPingFetch(c)
          \/ ClientPingSend(c)
          \/ ClientRecv(c)
          \/ ClientDisconnect(c)

SpecStream == Init /\ [][NextStream]_vars

\* A client connects to the new session, then one publisher fills the
\* channel and goes Overrun messages beyond its capacity while the client
\* reads at most MaxRecv times.
NextBackpressure ==
    \/ /\ rx[1].pc = "recv"
       /\ server_seq < CHANNEL_CAPACITY + Overrun
       /\ PublishFetch(1)
    \/ PublishSend(1)
    \/ ClientSubscribe(1)
    \/ ClientPingFetch(1)
    \/ ClientPingSend(1)
    \/ Len(rx[1].got) < MaxRecv /\ ClientRecv(1)

SpecBackpressure == Init /\ [][NextBackpressure]_vars

\* The session layer before any request, as in Init.
SessionIdle ==
    /\ server_seq = 0
    /\ context = DefaultContext
    /\ stream = <<>>
    /\ req = [r \in Requests |-> Idle]
    /\ chan = EmptyChannel
    /\ rx = [c \in Clients |-> ClosedClient]
    /\ pub = [t \in Tasks |-> IdleTask]

\* One streamed generate_content call of the mistral.rs model, for every
\* provider stream of at most MaxChunks items before Done.
NextMistral ==
    \/ \E ok \in BOOLEAN : StreamChatRequest(ok)
    \/ \E ok \in BOOLEAN : SendChatRequest(ok)
    \/ StreamNextChunk
    \/ StreamNextDone
    \/ StreamNextOther
    \/ StreamEnds

InitMistral ==
    /\ SessionIdle
    /\ sso = NoSso
    /\ studio = NoStudio
    /\ poll = NoPoll
    /\ turn \in Turns
    /\ mcp = NoTool
    /\ guard = NoGuard
    /\ rag = NoRag
    /\ store = NoStore
    /\ jwks = NewJwks({})
    /\ route = NoRoute

SpecMistral == InitMistral /\ [][NextMistral]_vars

\* McpToolset::tools for one tool of the server, for every schema nested at
\* most MaxDepth deep.
NextMcp ==
    \/ ToolFiltered
    \/ ToolConverted

InitMcp ==
    /\ SessionIdle
    /\ sso = NoSso
    /\ studio = NoStudio
    /\ poll = NoPoll
    /\ turn = NoTurn
    /\ mcp \in ListedTools
    /\ guard = NoGuard
    /\ rag = NoRag
    /\ store = NoStore
    /\ jwks = NewJwks({})
    /\ route = NoRoute

SpecMcp == InitMcp /\ [][NextMcp]_vars

\* One validate call of a SchemaValidator, for every content whose text has
\* at most MaxTextLen pieces.
NextGuard == Validate

InitGuard ==
    /\ SessionIdle
    /\ sso = NoSso
    /\ studio = NoStudio
    /\ poll = NoPoll
    /\ turn = NoTurn
    /\ mcp = NoTool
    /\ guard \in {[NoGuard EXCEPT !.pc = "call", !.content = content] : content \in Contents}
    /\ rag = NoRag
    /\ store = NoStore
    /\ jwks = NewJwks({})
    /\ route = NoRoute

SpecGuard == InitGuard /\ [][NextGuard]_vars

\* A caller of adk-rag: it makes a RagConfig, fills a RagPipelineBuilder,
\* builds the pipeline, ingests a document and queries.
NextRag ==
    \/ \E config \in RagConfigs : BuilderConfigBuilt(config)
    \/ \E config \in RagConfigs : BuilderConfigLiteral(config)
    \/ BuilderEmbeddingProvider
    \/ BuilderVectorStore
    \/ \E chunk_size \in ChunkSizes, chunk_overlap \in ChunkOverlaps :
          BuilderChunker(chunk_size, chunk_overlap)
    \/ RagPipelineBuilderBuild
    \/ \E text_len \in 0..MaxDocLen : Ingest(text_len)
    \/ Query

InitRag ==
    /\ SessionIdle
    /\ sso = NoSso
    /\ studio = NoStudio
    /\ poll = NoPoll
    /\ turn = NoTurn
    /\ mcp = NoTool
    /\ guard = NoGuard
    /\ rag = NoRag
    /\ store = NoStore
    /\ jwks = NewJwks({})
    /\ route = NoRoute

SpecRag == InitRag /\ [][NextRag]_vars

\* Any sequence of operations on one collection of an InMemoryVectorStore.
NextStore ==
    \/ CreateCollection
    \/ DeleteCollection
    \/ \E id \in ChunkIds, embedding \in Embeddings : Upsert(Chunk(id, embedding))
    \/ \E ids \in SUBSET ChunkIds : Delete(ids)
    \/ \E embedding \in Embeddings, top_k \in 0..MaxTopK : Search(embedding, top_k)

InitStore ==
    /\ SessionIdle
    /\ sso = NoSso
    /\ studio = NoStudio
    /\ poll = NoPoll
    /\ turn = NoTurn
    /\ mcp = NoTool
    /\ guard = NoGuard
    /\ rag = NoRag
    /\ store = NoStore
    /\ jwks = NewJwks({})
    /\ route = NoRoute

SpecStore == InitStore /\ [][NextStore]_vars

\* A JwksCache in use while time passes and the provider rotates its keys.
NextJwks ==
    \/ \E kid \in Kids, fetch_ok \in BOOLEAN : GetKey(kid, fetch_ok)
    \/ \E served \in SUBSET Kids : Rotate(served)
    \/ Tick

InitJwks ==
    /\ SessionIdle
    /\ sso = NoSso
    /\ studio = NoStudio
    /\ poll = NoPoll
    /\ turn = NoTurn
    /\ mcp = NoTool
    /\ guard = NoGuard
    /\ rag = NoRag
    /\ store = NoStore
    /\ jwks \in {NewJwks(served) : served \in SUBSET Kids}
    /\ route = NoRoute

SpecJwks == InitJwks /\ [][NextJwks]_vars

\* One route_prompt call, for every prompt, router answer and manifest score.
NextRoute == RoutePrompt

InitRoute ==
    /\ SessionIdle
    /\ sso = NoSso
    /\ studio = NoStudio
    /\ poll = NoPoll
    /\ turn = NoTurn
    /\ mcp = NoTool
    /\ guard = NoGuard
    /\ rag = NoRag
    /\ store = NoStore
    /\ jwks = NewJwks({})
    /\ route \in {[NoRoute EXCEPT !.pc = "call", !.prompt = prompt, !.answer = answer,
                                  !.scored = scored] :
                      prompt \in RoutePrompts, answer \in RouterAnswers, scored \in ScoredLists}

SpecRoute == InitRoute /\ [][NextRoute]_vars

\* Concurrent get_key and refresh calls on one JwksCache.
NextSso ==
    \/ \E t \in Callers :
          \/ \E kid \in Kids : GetKeyLookup(t, kid)
          \/ RefreshCall(t)
          \/ RefreshCheck(t)
          \/ \E fetch_ok \in BOOLEAN : RefreshFetch(t, fetch_ok)
          \/ RefreshClear(t)
          \/ RefreshInsert(t)
          \/ RefreshStore(t)
          \/ GetKeyRecheck(t)
    \/ \E served \in SUBSET Kids : ProviderRotates(served)
    \/ SecondPasses

InitSso ==
    /\ SessionIdle
    /\ sso \in {SharedJwks(served) : served \in SUBSET Kids}
    /\ studio = NoStudio
    /\ poll = NoPoll
    /\ turn = NoTurn
    /\ mcp = NoTool
    /\ guard = NoGuard
    /\ rag = NoRag
    /\ store = NoStore
    /\ jwks = NewJwks({})
    /\ route = NoRoute

SpecSso == InitSso /\ [][NextSso]_vars

\* Stream requests on one session_id of the studio run server.
NextStudio ==
    \/ \E t \in Streams :
          \/ \E has_binary \in BOOLEAN, spawn_ok \in BOOLEAN : StreamOpen(t, has_binary, spawn_ok)
          \/ \E write_ok \in BOOLEAN : StreamSend(t, write_ok)
          \/ StreamTimeout(t)
          \/ StreamPoll(t)
    \/ ChildChunk
    \/ ChildLog
    \/ ChildResponse

InitStudio ==
    /\ SessionIdle
    /\ studio = NoStudio
    /\ sso = NoSso
    /\ poll = NoPoll
    /\ turn = NoTurn
    /\ mcp = NoTool
    /\ guard = NoGuard
    /\ rag = NoRag
    /\ store = NoStore
    /\ jwks = NewJwks({})
    /\ route = NoRoute

SpecStudio == InitStudio /\ [][NextStudio]_vars

\* One poll_task call, for every task configuration and every server.
NextPoll ==
    \/ \E slept \in 1..2 : PollWait(slept)
    \/ \E answer \in PollResults : PollCall(answer)

InitPoll ==
    /\ SessionIdle
    /\ poll \in {PollTask(config) : config \in TaskConfigs}
    /\ studio = NoStudio
    /\ sso = NoSso
    /\ turn = NoTurn
    /\ mcp = NoTool
    /\ guard = NoGuard
    /\ rag = NoRag
    /\ store = NoStore
    /\ jwks = NewJwks({})
    /\ route = NoRoute

\* The task that runs poll_task is scheduled as long as it can take a step.
SpecPoll == InitPoll /\ [][NextPoll]_vars /\ WF_vars(NextPoll)

\* A session on which an earlier request, numbered EarlierId, has been
\* answered and left its approval pending: a Dangerous master prompt routed
\* to ops-center, or a handoff command of ops-center to mail-agent, handled
\* as MasterPromptUpdate and MasterPromptGate, or AppCommandHandoff, handle
\* them on the default context. The requests of the model follow it.
EarlierId == 0

EarlierPlan == route_prompt(<<"rollback", "checkout", "now">>, <<"ops-center">>, None)

EarlierHandoff == [from_app |-> "ops-center", to_app |-> "mail-agent"]

ContextAfter(earlier) ==
    IF earlier = "master_prompt"
    THEN [DefaultContext EXCEPT
            !.active_apps = EarlierPlan.selected_apps,
            !.focused_app = FirstOf(EarlierPlan.selected_apps),
            !.pending_approval = Some([action_id |-> EarlierId, app_id |-> "ops-center",
                                       risk |-> EarlierPlan.risk]),
            !.audit_log = <<AuditEntry(EarlierId, "ops-center", EarlierPlan.risk, "Proposed")>>]
    ELSE [DefaultContext EXCEPT
            !.pending_handoff = Some([handoff_id |-> EarlierId, request |-> EarlierHandoff]),
            !.pending_approval = Some([action_id |-> EarlierId, app_id |-> "ops-center",
                                       risk |-> "Controlled"]),
            !.audit_log = <<AuditEntry(EarlierId, "ops-center", "Controlled", "Proposed")>>]

PublishedAfter(earlier) ==
    IF earlier = "master_prompt"
    THEN <<ShellState(EarlierPlan.selected_apps, FirstOf(EarlierPlan.selected_apps)),
           TimelineEntry("route", Nothing, TRUE),
           AppSurfaceOps(EarlierPlan.selected_apps),
           ApprovalRequired(EarlierId, "ops-center", EarlierPlan.risk)>>
    ELSE <<TimelineEntry("handoff_requested", Some(EarlierId), TRUE),
           ApprovalRequired(EarlierId, "ops-center", "Controlled")>>

InitPending ==
    /\ \E earlier \in {"master_prompt", "app_command"} :
          /\ context = ContextAfter(earlier)
          /\ stream = [i \in 1..Len(PublishedAfter(earlier)) |->
                          SseEnvelope(i, PublishedAfter(earlier)[i])]
          /\ server_seq = Len(PublishedAfter(earlier))
    /\ req = [r \in Requests |-> Idle]
    /\ chan = EmptyChannel
    /\ rx = [c \in Clients |-> ClosedClient]
    /\ pub = [t \in Tasks |-> IdleTask]
    /\ sso = NoSso
    /\ studio = NoStudio
    /\ poll = NoPoll
    /\ turn = NoTurn
    /\ mcp = NoTool
    /\ guard = NoGuard
    /\ rag = NoRag
    /\ store = NoStore
    /\ jwks = NewJwks({})
    /\ route = NoRoute

\* The requests that follow a pending approval, in any interleaving.
SpecPending == InitPending /\ [][Next]_vars

\* ------------------------------------------------ the approval gate (Spec)

\* The messages a step hands to the channel.
Published == SubSeq(stream', Len(stream) + 1, Len(stream'))

ApprovalRequiredCount(action_id) ==
    Cardinality({ k \in 1..Len(stream) :
                    /\ stream[k].payload.kind = "approval_required"
                    /\ stream[k].payload.action_id = action_id })

Audited(log, action_id, decision) ==
    \E i \in 1..Len(log) : log[i].action_id = action_id /\ log[i].decision = decision

Quiescent == \A r \in Requests : req[r].pc \in {"idle", "done"}

\* C1: for every prompt classified Dangerous (its approval is audited as
\* Proposed with risk Dangerous), exactly one ApprovalRequired event with its
\* action_id has been published on the session stream, whatever requests and
\* stream connections follow, and the action is not audited as Executed
\* before a decision approved it.
C1_ExactlyOneApprovalRequired ==
    \A i \in 1..Len(context.audit_log) :
        LET entry == context.audit_log[i] IN
        (entry.decision = "Proposed" /\ entry.risk = "Dangerous") =>
            /\ ApprovalRequiredCount(entry.action_id) = 1
            /\ Audited(context.audit_log, entry.action_id, "Executed")
                 => Audited(context.audit_log, entry.action_id, "Approved")

\* A decision handler about to run the rest of its arm, whose snapshot shows
\* no pending handoff and no pending approval with the decision's action_id.
UnmatchedDecision(r) ==
    /\ req[r].kind = "approval_decision" /\ req[r].pc = "apply"
    /\ LET snap == req[r].snap[1]
           action_id == req[r].arg.action_id
       IN /\ snap.pending_handoff = Nothing \/ snap.pending_handoff[1].handoff_id # action_id
          /\ snap.pending_approval = Nothing \/ snap.pending_approval[1].action_id # action_id

\* C2: a decision whose action_id is not that of the approval pending when
\* the handler reads the context, or that finds nothing pending, changes
\* nothing in the context (no Approved or Rejected audit entry, the pending
\* approval stays) and publishes only a warning or an error: no timeline
\* entry or notification that lets the action proceed, no Done.
C2_OnlyMatchingDecisionUnblocks ==
    [][\A r \in Requests :
          (UnmatchedDecision(r) /\ req'[r] # req[r]) =>
             /\ context' = context
             /\ \A k \in 1..Len(Published) :
                   \/ Published[k].payload = ErrorPayload("approval_mismatch")
                   \/ Published[k].payload = Notification("warn", "No pending approval found")]_vars

\* C2 witness: a decision with another action_id was refused while an approval
\* was, and still is, pending.
C2_Witness ==
    /\ context.pending_approval # Nothing
    /\ \E k \in 1..Len(stream) : stream[k].payload = ErrorPayload("approval_mismatch")

\* A decision handler about to reject the Dangerous approval its snapshot
\* shows pending under the decision's action_id.
RejectsDangerous(r) ==
    /\ req[r].kind = "approval_decision" /\ req[r].pc = "apply"
    /\ ~req[r].arg.approved
    /\ LET snap == req[r].snap[1]
           action_id == req[r].arg.action_id
       IN /\ snap.pending_handoff = Nothing \/ snap.pending_handoff[1].handoff_id # action_id
          /\ snap.pending_approval # Nothing
          /\ snap.pending_approval[1].action_id = action_id
          /\ snap.pending_approval[1].risk = "Dangerous"

\* C3: when the pending Dangerous action is rejected by a decision with its
\* action_id, the handler audits it as Rejected, leaves no approval pending,
\* and publishes the rejection of that action followed by a final Done; and
\* no audit log ever shows a rejected action as Executed.
C3_RejectionCompletes ==
    [][/\ \A r \in Requests :
            (RejectsDangerous(r) /\ req'[r] # req[r]) =>
               LET action_id == req[r].arg.action_id
                   log == context'.audit_log
               IN /\ req'[r].pc = "done"
                  /\ context'.pending_approval = Nothing
                  /\ Len(log) = Len(context.audit_log) + 1
                  /\ log[Len(log)].action_id = action_id
                  /\ log[Len(log)].decision = "Rejected"
                  /\ Len(Published) >= 2
                  /\ \E k \in 1..(Len(Published) - 1) :
                        Published[k].payload = TimelineEntry("approval", Some(action_id), FALSE)
                  /\ Published[Len(Published)].payload.kind = "done"
       /\ \A i \in 1..Len(context'.audit_log) :
            context'.audit_log[i].decision = "Rejected" =>
               ~Audited(context'.audit_log, context'.audit_log[i].action_id, "Executed")]_vars

\* C3 witness: a Dangerous action was rejected and the stream shows the
\* rejection and the Done that ends it.
C3_Witness ==
    /\ \E i \in 1..Len(context.audit_log) :
          /\ context.audit_log[i].decision = "Rejected"
          /\ context.audit_log[i].risk = "Dangerous"
          /\ \E k \in 1..Len(stream) :
                stream[k].payload = TimelineEntry("approval", Some(context.audit_log[i].action_id), FALSE)
    /\ Len(stream) > 0
    /\ stream[Len(stream)].payload = Done("approval_resolved")

\* C4: once no handler is running, every Dangerous action that was approved
\* has been executed (it is audited as Executed).
C4_ApprovedIsExecuted ==
    Quiescent =>
        \A i \in 1..Len(context.audit_log) :
            LET entry == context.audit_log[i] IN
            (entry.decision = "Approved" /\ entry.risk = "Dangerous") =>
                Audited(context.audit_log, entry.action_id, "Executed")

\* C5: a master prompt whose plan is classified Controlled goes on without
\* an approval decision (Done is published, no approval becomes pending) and
\* an entry for it is recorded in the audit log.
C5_ControlledIsAudited ==
    [][\A r \in Requests :
          (/\ req[r].kind = "master_prompt" /\ req[r].pc = "gate"
           /\ req[r].arg.plan.risk = "Controlled"
           /\ req'[r] # req[r]) =>
             /\ Published[Len(Published)].payload = Done("completed")
             /\ context'.pending_approval = context.pending_approval
             /\ Len(context'.audit_log) = Len(context.audit_log) + 1
             /\ context'.audit_log[Len(context'.audit_log)].risk = "Controlled"]_vars

\* ------------------------------- the session channel (SpecStream, SpecBackpressure)

Lost == [lost |-> TRUE]

\* What a client's items say about the successive channel positions: an
\* envelope for a position delivered, Lost for each one a lag notice counts.
RECURSIVE Account(_)
Account(items) ==
    IF items = <<>> THEN <<>>
    ELSE LET head == Head(items)
         IN (IF IsEnvelope(head) THEN <<head>> ELSE [j \in 1..head.skipped |-> Lost])
              \o Account(Tail(items))

Received(c) == SubSeq(rx[c].got, rx[c].base + 1, Len(rx[c].got))

\* C6: every event published after a connected consumer subscribed, and that
\* its receiver has moved past, was either delivered to it, in its place, or
\* is counted by a "client lagged" notice it was sent: none is dropped
\* silently, however far the consumer falls behind.
C6_NoSilentDrop ==
    \A c \in Clients :
        rx[c].pc # "closed" =>
            LET account == Account(Received(c))
            IN /\ Len(account) = rx[c].next - rx[c].start
               /\ \A j \in 1..Len(account) :
                     account[j] = Lost \/ account[j] = stream[rx[c].since + j]

\* C6 witness: a consumer fell more than the channel's capacity behind and was
\* sent a "client lagged" notice, then the oldest retained event.
C6_Witness ==
    \E c \in Clients : \E i \in 1..Len(rx[c].got) :
        /\ ~IsEnvelope(rx[c].got[i])
        /\ i < Len(rx[c].got)

\* The channel holds CHANNEL_CAPACITY events and a connected consumer has
\* read none of them.
ChannelFull ==
    /\ Len(chan.buf) = CHANNEL_CAPACITY
    /\ \E c \in Clients : rx[c].pc # "closed" /\ rx[c].next <= Oldest(chan)

\* C7 as stated: the channel retains at most 256 events, and while it is full
\* because a consumer is slow no publish completes (the producer is parked).
C7_ProducerParksWhenFull ==
    [][/\ Len(chan'.buf) <= CHANNEL_CAPACITY
       /\ ChannelFull => (chan'.sent = chan.sent /\ stream' = stream)]_vars

\* C7 amended: the channel retains at most 256 events, and a publish made
\* while a consumer is connected completes at once, also when the channel is
\* full because the consumer is slow: the new event is retained as the newest
\* and, when the channel was full, the oldest one is discarded for it.
C7_PublishOverwritesOldest ==
    [][\A t \in Tasks :
          (pub[t].pc = "send" /\ pub'[t].pc = "idle" /\ ReceiverCount > 0) =>
             LET envelope == SseEnvelope(pub[t].seq, TaskPayload)
             IN /\ chan'.sent = chan.sent + 1
                /\ Len(chan'.buf) <= CHANNEL_CAPACITY
                /\ chan'.buf[Len(chan'.buf)] = envelope
                /\ Len(chan.buf) = CHANNEL_CAPACITY =>
                      chan'.buf = Append(Tail(chan.buf), envelope)]_vars

\* C7 witness: publishes completed on a full channel whose consumer had not
\* read: more events were accepted than the channel holds and the consumer
\* is behind the oldest one retained.
C7_Witness ==
    /\ chan.sent > CHANNEL_CAPACITY
    /\ Len(chan.buf) = CHANNEL_CAPACITY
    /\ \E c \in Clients : rx[c].pc = "recv" /\ rx[c].next < Oldest(chan)

\* C8: every subscriber receives the envelopes in strictly increasing seq
\* order, whatever the interleaving of the publish calls.
C8_SubscribersSeeIncreasingSeq ==
    \A c \in Clients : \A i, j \in 1..Len(rx[c].got) :
        (i < j /\ IsEnvelope(rx[c].got[i]) /\ IsEnvelope(rx[c].got[j])) =>
            rx[c].got[i].seq < rx[c].got[j].seq

\* C9: the sequence numbers of the events emitted on a session are, in the
\* order of emission, exactly 1, 2, 3, ...: no gap, no duplicate, none out
\* of order.
C9_EmittedSeqDense ==
    \A k \in 1..Len(stream) : stream[k].seq = k

ResumeUnavailable == [kind |-> "resume_unavailable"]

\* C10: a client that reconnected with a last_seq (the highest seq it had
\* seen) and is receiving live events again has been sent either every event
\* published before it reconnected with a seq greater than last_seq, or
\* ResumeUnavailable.
C10_ResumeReplaysOrRefuses ==
    \A c \in Clients :
        (/\ rx[c].pc = "recv" /\ rx[c].connections >= 2
         /\ rx[c].last_seq > 0
         /\ Len(rx[c].got) > rx[c].base) =>
            \/ \E i \in 1..Len(rx[c].got) : rx[c].got[i] = ResumeUnavailable
            \/ \A k \in 1..rx[c].since :
                  stream[k].seq > rx[c].last_seq =>
                     \E i \in 1..Len(rx[c].got) : rx[c].got[i] = stream[k]

\* ------------------------------------------- streamed turns (SpecMistral)

IsResponse(item) == "partial" \in DOMAIN item

RECURSIVE ConcatPartials(_)
ConcatPartials(responses) ==
    IF responses = <<>> THEN <<>>
    ELSE (IF IsResponse(Head(responses)) /\ Head(responses).partial
          THEN Head(responses).content[1] ELSE <<>>) \o ConcatPartials(Tail(responses))

\* C11: in a streamed turn, whenever a final, non-partial response has been
\* yielded, its text is the concatenation, in the order yielded, of the
\* texts of the partial responses of the turn.
C11_PartialsConcatToFinal ==
    turn.stream =>
        \A i \in 1..Len(turn.yielded) :
            (IsResponse(turn.yielded[i]) /\ ~turn.yielded[i].partial) =>
                turn.yielded[i].content = Some(ConcatPartials(turn.yielded))

\* C11 witness: a turn ended whose provider sent two chunks with text and
\* Done: two partial responses and the final one were yielded.
C11_Witness ==
    /\ turn.stream /\ turn.pc = "end"
    /\ Len(turn.yielded) = 3
    /\ turn.yielded[1].partial /\ turn.yielded[1].content # Some(<<>>)
    /\ turn.yielded[2].partial /\ turn.yielded[2].content # turn.yielded[1].content
    /\ turn.yielded[2].content # Some(<<>>)
    /\ ~turn.yielded[3].partial

CanonicalFinishReasons ==
    {"Stop", "MaxTokens", "Safety", "Recitation", "Other", "Blocklist",
     "ProhibitedContent", "Spii", "MalformedFunctionCall"}

\* C12: the finish reason of every final response is a member of the
\* canonical set and is the member that stands for the reason the provider
\* sent with the response it ends: "stop" is Stop, "length" is MaxTokens,
\* any other value is Other.
C12_FinishReasonNormalized ==
    \A i \in 1..Len(turn.yielded) :
        LET response == turn.yielded[i]
            received == turn.provider[turn.pos]
        IN (IsResponse(response) /\ ~response.partial /\ received.choices # <<>>) =>
              /\ response.finish_reason \in CanonicalFinishReasons
              /\ received.choices[1].finish_reason = "stop" =>
                    response.finish_reason = "Stop"
              /\ received.choices[1].finish_reason = "length" =>
                    response.finish_reason = "MaxTokens"
              /\ received.choices[1].finish_reason \notin {"stop", "length"} =>
                    response.finish_reason = "Other"

\* ------------------------------------------------- MCP schemas (SpecMcp)

RemovedKeys == {"$schema", "additionalProperties", "definitions", "$ref"}

\* No object of the value, at any depth, has one of the removed keys.
RECURSIVE Sanitized(_)
Sanitized(value) ==
    IF value.t = "object"
    THEN /\ DOMAIN value.map \cap RemovedKeys = {}
         /\ \A k \in DOMAIN value.map : Sanitized(value.map[k])
    ELSE IF value.t = "array"
    THEN \A i \in 1..Len(value.items) : Sanitized(value.items[i])
    ELSE TRUE

\* C13: the parameter schema of every tool the MCP toolset hands out, and
\* its response schema when it has one, contains none of $schema,
\* additionalProperties, definitions, $ref at any depth, inside objects and
\* inside arrays.
C13_SchemasSanitized ==
    mcp.pc = "tool" =>
        /\ Sanitized(mcp.input_schema[1])
        /\ mcp.output_schema # Nothing => Sanitized(mcp.output_schema[1])

\* C13 witness: a tool was handed out whose listed schema had $ref in an
\* object inside an array, two levels below a root that had definitions.
C13_Witness ==
    /\ mcp.pc = "tool"
    /\ LET listed == mcp.mcp_tool[1].input_schema
       IN /\ DOMAIN listed.map = {"definitions", "properties"}
          /\ listed.map["properties"].t = "array"
          /\ Len(listed.map["properties"].items) = 2
          /\ listed.map["properties"].items[2].t = "object"
          /\ "$ref" \in DOMAIN listed.map["properties"].items[2].map

\* ------------------------------------------- schema guardrail (SpecGuard)

\* The text of the only part of the validated content.
OnlyText == guard.content[1].text

\* C14: validate returns Pass or Fail, never Modified; it returns Pass
\* exactly when JSON is extracted from the content and that JSON satisfies
\* the schema. For a content of one text part: a raw JSON document, and a
\* document that is the body of a fenced json block after other words, are
\* extracted and decide the result; words without JSON or fence fail.
C14_PassIffExtractedJsonValid ==
    guard.pc = "returned" =>
        /\ guard.result.kind \in {"Pass", "Fail"}
        /\ guard.result.kind = "Pass" <=>
              /\ extract_json(guard.content) # Nothing
              /\ validator_validate(extract_json(guard.content)[1])
        /\ \A document \in {ValidJson, InvalidJson} :
              (/\ Len(guard.content) = 1
               /\ \/ OnlyText = <<document>>
                  \/ OnlyText = <<"result:", FenceJson, document, FenceBare>>
                  \/ OnlyText = <<FencePlain, document, FenceBare>>) =>
                 (guard.result.kind = "Pass" <=> document = ValidJson)
        /\ (Len(guard.content) = 1 /\ \A i \in 1..Len(OnlyText) : OnlyText[i] \in {"result:", " "})
              => guard.result.kind = "Fail"

\* C14 witness: a valid document in a fenced json block passed.
C14_Witness ==
    /\ guard.pc = "returned"
    /\ guard.content = <<TextPart(<<FenceJson, ValidJson, FenceBare>>)>>
    /\ guard.result.kind = "Pass"

\* ------------------------------------------------- RAG pipeline (SpecRag)

ValidRagConfig(config) == config.chunk_overlap < config.chunk_size /\ config.top_k > 0

\* C15: a pipeline that was built and run has a configuration with
\* chunk_overlap < chunk_size and top_k > 0, and was built from a builder
\* with config, embedding provider, vector store and chunker all set.
C15_InvalidConfigFailsAtBuild ==
    (rag.pipeline # Nothing /\ rag.ran) =>
        /\ ValidRagConfig(rag.pipeline[1].config)
        /\ rag.builder.config # Nothing
        /\ rag.builder.embedding_provider
        /\ rag.builder.vector_store
        /\ rag.builder.chunker # Nothing

\* ------------------------------------------- in-memory search (SpecStore)

\* C16: what search returned has at most top_k results, each with a score
\* greater than or equal to the score of the next.
C16_SearchBoundedAndOrdered ==
    store.found # Nothing =>
        LET results == store.found[1].results
        IN /\ Len(results) <= store.found[1].top_k
           /\ \A i \in 1..(Len(results) - 1) : ScoreGeq(results[i].score, results[i + 1].score)

\* ------------------------------------------------- JWKS cache (SpecJwks)

\* C17: a get_key whose key id is not cached fetches the JWKS before it
\* answers, and when the fetch succeeds and the endpoint serves the key it
\* returns the key, not KeyNotFound.
C17_MissRefetches ==
    (jwks.call # Nothing /\ ~jwks.call[1].cached) =>
        /\ jwks.call[1].fetched
        /\ (jwks.call[1].fetch_ok /\ jwks.call[1].kid \in jwks.call[1].served)
              => jwks.call[1].result = "Ok"

\* C18: a get_key made more than refresh_interval after the last
\* successful refresh fetches the JWKS before it returns a key, so a key
\* it returns is one the endpoint still serves.
C18_StaleCacheRefetches ==
    (/\ jwks.call # Nothing
     /\ jwks.call[1].refreshed_before
     /\ jwks.call[1].elapsed > refresh_interval
     /\ jwks.call[1].result = "Ok") =>
        /\ jwks.call[1].fetched
        /\ jwks.call[1].kid \in jwks.call[1].served

\* ------------------------------------------------ handoff and commands (Spec)

\* A decision handler about to resolve the handoff its snapshot shows
\* pending under the decision's action_id.
DecidesHandoff(r) ==
    /\ req[r].kind = "approval_decision" /\ req[r].pc = "apply"
    /\ req[r].snap[1].pending_handoff # Nothing
    /\ req[r].snap[1].pending_handoff[1].handoff_id = req[r].arg.action_id

Count(x, s) == Cardinality({i \in 1..Len(s) : s[i] = x})

C20_FailedCommandIsReported ==
    [][\A r \in Requests, app_id \in CommandApps, command \in Commands, agent_accepts \in BOOLEAN :
          (/\ AppCommandExecute(r, app_id, command, agent_accepts)
           /\ app_id \notin Registered \/ ~agent_accepts) =>
             /\ \E k \in 1..Len(Published) :
                   Published[k].payload = TimelineEntry("app_command", Nothing, FALSE)
             /\ \E k \in 1..Len(Published) :
                   /\ Published[k].payload.kind = "notification"
                   /\ Published[k].payload.level = "warn"
                   /\ Published[k].payload.message \in {"Unknown app", "Execution failed"}
             /\ req'[r] = Responded
             /\ \A q \in Requests \ {r} : req'[q] = req[q]
             /\ context' = context]_vars

\* C20 witness: a command for an unknown app was answered with a warning,
\* and an event that came after it was handled and published.
C20_Witness ==
    \E k \in 1..Len(stream) :
        /\ stream[k].payload = Notification("warn", "Unknown app")
        /\ \E j \in (k + 1)..Len(stream) : stream[j].payload.kind \in {"shell_state", "approval_required"}

\* ------------------------------------------------ risk of a route (SpecRoute)

\* The keyword risk of a prompt, as the claim words it.
KeywordRisk(prompt) ==
    IF \E term \in dangerous_terms : Contains(prompt, term) THEN "Dangerous"
    ELSE IF \E term \in controlled_terms : Contains(prompt, term) THEN "Controlled"
    ELSE "Safe"

\* C21 as stated: the keyword risk is Dangerous, else Controlled, else Safe
\* by the keyword lists, and the risk of every routed plan is the maximum of
\* the declared risks of its selected apps and the prompt's keyword risk.
C21_PlanRiskIsMaxOfAppsAndKeywords ==
    route.pc = "returned" =>
        /\ classify_prompt_risk(route.prompt) = KeywordRisk(route.prompt)
        /\ route.plan[1].risk =
              max_risk(max_risk_for_selected(route.plan[1].selected_apps),
                       KeywordRisk(route.prompt))

\* The risk a route has before the keywords are looked at: the tier the
\* router model stated, and the highest declared risk of the selected apps
\* when it stated none or the manifest route was taken.
RouteOwnRisk ==
    IF route.llm /\ route.answer[1].risk \in RiskTier THEN route.answer[1].risk
    ELSE max_risk_for_selected(route.plan[1].selected_apps)

\* C21 amended: the keyword risk is Dangerous, else Controlled, else Safe by
\* the keyword lists; the risk of a routed plan is the maximum of the
\* prompt's keyword risk and the route's own risk (the tier the router
\* model stated, else the highest declared risk of the selected apps); so
\* on both paths it is never lower than the keyword risk.
C21_PlanRiskIsMaxOfRouteAndKeywords ==
    route.pc = "returned" =>
        /\ classify_prompt_risk(route.prompt) = KeywordRisk(route.prompt)
        /\ route.plan[1].risk = max_risk(RouteOwnRisk, KeywordRisk(route.prompt))
        /\ risk_rank(route.plan[1].risk) >= risk_rank(KeywordRisk(route.prompt))

\* C21 witness: the router model called a prompt with a dangerous keyword
\* safe, and the plan is Dangerous.
C21_Witness ==
    /\ route.pc = "returned"
    /\ route.llm
    /\ route.answer[1].risk = "Safe"
    /\ KeywordRisk(route.prompt) = "Dangerous"
    /\ route.plan[1].risk = "Dangerous"

\* ------------------------------------------- pending approvals (Spec)

\* C22: a step that removes or replaces the pending approval is the step
\* of an ApprovalDecision handler whose decision carries the action_id of
\* that approval.
C22_OnlyItsDecisionRemovesApproval ==
    [][(context.pending_approval # Nothing /\ context'.pending_approval # context.pending_approval)
          => \E r \in Requests :
                /\ req[r].kind = "approval_decision" /\ req[r].pc = "apply"
                /\ req[r].arg.action_id = context.pending_approval[1].action_id
                /\ req'[r] # req[r]]_vars

\* ------------------------------------------- audit log (SpecPending)

Resolution(entry) == entry.decision \in {"Approved", "Rejected"}

\* C23: every Approved or Rejected entry of the audit log comes after a
\* Proposed entry with its action_id, and no action_id has two Approved or
\* Rejected entries.
C23_OneResolutionPerProposal ==
    \A i \in 1..Len(context.audit_log) :
        LET entry == context.audit_log[i] IN
        Resolution(entry) =>
            /\ \E j \in 1..(i - 1) :
                  /\ context.audit_log[j].action_id = entry.action_id
                  /\ context.audit_log[j].decision = "Proposed"
            /\ \A k \in 1..Len(context.audit_log) :
                  (k # i /\ context.audit_log[k].action_id = entry.action_id)
                      => ~Resolution(context.audit_log[k])

\* ------------------------------------------- handoff policy (Spec)

\* C24: a decision that resolves a handoff adds the target to active_apps
\* or makes it the focused app only if the handoff policy allows the route
\* from the source to the target.
C24_HandoffActivatesOnlyAllowedRoute ==
    [][\A r \in Requests :
          (DecidesHandoff(r) /\ req'[r] # req[r]) =>
             LET request == req[r].snap[1].pending_handoff[1].request
                 added == /\ ~InSeq(request.to_app, context.active_apps)
                          /\ InSeq(request.to_app, context'.active_apps)
                 focused == /\ context.focused_app # request.to_app
                            /\ context'.focused_app = request.to_app
             IN (added \/ focused) =>
                    evaluate_handoff_policy(request.from_app, request.to_app)]_vars

\* ------------------------------------------- shell state (Spec)

\* C28: the focused app of the session context is unset or one of its
\* active apps, and no app id occurs twice in active_apps.
C28_FocusIsActiveAndAppsDistinct ==
    /\ context.focused_app = None \/ InSeq(context.focused_app, context.active_apps)
    /\ \A i, j \in 1..Len(context.active_apps) :
          context.active_apps[i] = context.active_apps[j] => i = j

\* ------------------------------------------- concurrent JWKS (SpecSso)

\* C26: a get_key that returns KeyNotFound was asked for a key that is
\* absent from the JWKS fetched last before it returned, and a fetch that
\* fails leaves the cached keys as they were.
C26_KeyNotFoundOnlyIfAbsent ==
    [][\A t \in Callers :
          /\ (sso'.task[t] # sso.task[t] /\ sso'.task[t].result = "KeyNotFound")
                => /\ sso'.task[t].latest # Nothing
                   /\ sso'.task[t].kid \notin sso'.task[t].latest[1]
          /\ (sso'.task[t] # sso.task[t] /\ sso'.task[t].result = "JwksFetchError")
                => sso'.keys = sso.keys]_vars

\* ------------------------------------------- studio streams (SpecStudio)

\* C25: every event on a request's stream that comes from a line of the
\* session's process comes from a line written for that request's input.
C25_StreamGetsOwnOutput ==
    \A t \in Streams :
        \A i \in 1..Len(studio.request[t].out) :
            studio.request[t].out[i].input \in {0, t}

\* ------------------------------------------- poll_task (SpecPoll)

\* C27: every poll_task call returns.
C27_PollTaskReturns == <>(poll.pc = "returned")

=============================================================================
